---- MODULE Spec2Model ----
(***************************************************************************)
(* A model of the VIBE configuration parser (src/vibe.c, src/vibe.h):      *)
(* the lexer, the stack-driven parser, the owned value tree and the        *)
(* dotted-path lookup.                                                     *)
(*                                                                         *)
(* Bytes are one-character strings, C strings are sequences of bytes, and  *)
(* heap objects (VibeValue) live in a function from addresses to nodes.    *)
(* A C function that returns through several local variables is written    *)
(* as a chain of operators, each taking the locals computed so far.        *)
(***************************************************************************)
EXTENDS Integers, Sequences, FiniteSets, TLC

VARIABLES
  parser,   \* the VibeParser handle
  heap,     \* the live VibeValues, by address
  root,     \* the tree the caller holds, or NULL
  fresh,    \* a value the caller has constructed and not yet stored, or NULL
  ret,      \* the last call, its argument and what it returned
  ncalls,   \* the number of parse calls made on the handle
  nsets,    \* the number of vibe_object_set calls made by the caller
  run,      \* the loop state of a vibe_parse_string call in progress, or Idle
  freed     \* the error messages passed to free, by address, with the call that freed

vars == <<parser, heap, root, fresh, ret, ncalls, nsets, run, freed>>

\* the null pointer: to a VibeValue, to a C string, to an error message
NULL == 0

NULL_STR == <<"NULL">>

NULL_MSG == "(null)"

(***************************************************************************)
(* Program constants                                                       *)
(***************************************************************************)
MAX_NESTING_DEPTH == 64

BUFFER_SIZE == 4096

(***************************************************************************)
(* Bytes.  Printable lists the bytes 0x21..0x7E in code order; the byte    *)
(* 0x60 is written "GRAVE" and the terminating zero byte "NUL".            *)
(***************************************************************************)
Printable ==
   << "!", "\"", "#", "$", "%", "&", "'", "(", ")", "*", "+", ",", "-", ".", "/", "0",
      "1", "2", "3", "4", "5", "6", "7", "8", "9", ":", ";", "<", "=", ">", "?", "@",
      "A", "B", "C", "D", "E", "F", "G", "H", "I", "J", "K", "L", "M", "N", "O", "P",
      "Q", "R", "S", "T", "U", "V", "W", "X", "Y", "Z", "[", "\\", "]", "^", "_", "GRAVE",
      "a", "b", "c", "d", "e", "f", "g", "h", "i", "j", "k", "l", "m", "n", "o", "p",
      "q", "r", "s", "t", "u", "v", "w", "x", "y", "z", "{", "|", "}", "~" >>

Bytes == {Printable[i] : i \in 1..Len(Printable)} \cup {" ", "\t", "\n", "\r", "NUL"}

\* the code of a byte
Ord ==
  [c \in Bytes |->
     CASE c = "NUL" -> 0
       [] c = "\t" -> 9
       [] c = "\n" -> 10
       [] c = "\r" -> 13
       [] c = " "  -> 32
       [] OTHER    -> 32 + (CHOOSE i \in 1..Len(Printable) : Printable[i] = c)]

Within(n, lo, hi) == n >= lo /\ n <= hi

isdigit(c) == Within(Ord[c], 48, 57)

isupper(c) == Within(Ord[c], 65, 90)

islower(c) == Within(Ord[c], 97, 122)

isalpha(c) == isupper(c) \/ islower(c)

isalnum(c) == isalpha(c) \/ isdigit(c)

\* byte i (0-based, as in C) of a string; the terminating NUL is "NUL"
At(s, i) == IF i < Len(s) THEN s[i + 1] ELSE "NUL"

(***************************************************************************)
(* Character classification                                                *)
(***************************************************************************)
is_identifier_start(c) == isalpha(c) \/ c = "_"

is_identifier_char(c) == isalnum(c) \/ c = "_" \/ c = "-"

\* is_unquoted_string_char that takes the double quote for a structural
\* character
is_unquoted_string_char_no_quote(c) ==
  IF ~Within(Ord[c], 33, 126) THEN FALSE
  ELSE IF c = "{" \/ c = "}" \/ c = "[" \/ c = "]" \/ c = "#" \/ c = "\"" THEN FALSE
  ELSE TRUE

is_unquoted_string_char(c) ==
  IF ~Within(Ord[c], 33, 126) THEN FALSE
  ELSE IF c = "{" \/ c = "}" \/ c = "[" \/ c = "]" \/ c = "#" THEN FALSE
  ELSE TRUE

(***************************************************************************)
(* Number validation                                                       *)
(***************************************************************************)
\* the loop of is_valid_number without the final test for a digit after
\* the dot
RECURSIVE is_valid_number_loop_no_final(_, _, _, _)
is_valid_number_loop_no_final(str, p, has_dot, has_digit_after_dot) ==
  IF p >= Len(str)
    THEN TRUE
    ELSE IF isdigit(At(str, p))
      THEN is_valid_number_loop_no_final(str, p + 1, has_dot, has_digit_after_dot \/ has_dot)
      ELSE IF At(str, p) = "."
        THEN IF has_dot THEN FALSE
             ELSE is_valid_number_loop_no_final(str, p + 1, TRUE, has_digit_after_dot)
        ELSE FALSE

RECURSIVE is_valid_number_loop(_, _, _, _)
is_valid_number_loop(str, p, has_dot, has_digit_after_dot) ==
  IF p >= Len(str)
    THEN ~(has_dot /\ ~has_digit_after_dot)
    ELSE IF isdigit(At(str, p))
      THEN is_valid_number_loop(str, p + 1, has_dot, has_digit_after_dot \/ has_dot)
      ELSE IF At(str, p) = "."
        THEN IF has_dot THEN FALSE
             ELSE is_valid_number_loop(str, p + 1, TRUE, has_digit_after_dot)
        ELSE FALSE

\* is_valid_number without if (*p == '-') p++
minus_len_none(str) == 0

\* the number of sign bytes a decimal text starts with
minus_len(str) == IF At(str, 0) = "-" THEN 1 ELSE 0

is_valid_number_from(str, p) ==
  IF ~isdigit(At(str, p)) THEN FALSE ELSE is_valid_number_loop(str, p, FALSE, FALSE)

is_valid_number(str) ==
  IF str = NULL_STR \/ Len(str) = 0 THEN FALSE
  ELSE is_valid_number_from(str, minus_len(str))

(***************************************************************************)
(* Parser handle and error channel                                         *)
(***************************************************************************)
\* zeroed handle with line = column = 1; error.message is the text of the
\* message and error.block the address of the string that holds it
vibe_parser_new ==
  [input |-> NULL_STR, pos |-> 0, length |-> 0, line |-> 1, column |-> 1,
   error |-> [has_error |-> FALSE, message |-> NULL_MSG, block |-> NULL,
              line |-> 0, column |-> 0]]

\* the address strdup returns for a message of the handle: the strings
\* are numbered in the order in which they are allocated, and the one the
\* handle points to is the last
strdup(p) == p.error.block + 1

\* set_error without the latch: a later error replaces the record
set_error_overwrite(p, message) ==
  [p EXCEPT !.error = [has_error |-> TRUE, message |-> message, block |-> strdup(p),
                       line |-> p.line, column |-> p.column]]

set_error(p, message) ==
  IF p.error.has_error THEN p
  ELSE [p EXCEPT !.error = [has_error |-> TRUE, message |-> message, block |-> strdup(p),
                            line |-> p.line, column |-> p.column]]

\* vibe_get_last_error that gives the record a string of its own
vibe_get_last_error_copied(p) ==
  [p.error EXCEPT !.block = IF @ = NULL THEN NULL ELSE 0 - @]

vibe_get_last_error(p) == p.error

\* returns [error, frees]: the record after vibe_error_free(&error) and
\* the addresses passed to free
vibe_error_free(error) ==
  IF error.block # NULL
    THEN [error |-> [error EXCEPT !.message = NULL_MSG, !.block = NULL],
          frees |-> <<error.block>>]
    ELSE [error |-> error, frees |-> <<>>]

\* the addresses vibe_parser_free(parser) passes to free, the handle apart
vibe_parser_free(p) == IF p.error.block # NULL THEN <<p.error.block>> ELSE <<>>

(***************************************************************************)
(* Lexer                                                                   *)
(***************************************************************************)
\* parser->input[parser->pos]
ch(p) == At(p.input, p.pos)

\* parser->pos++; parser->column++
step(p) == [p EXCEPT !.pos = @ + 1, !.column = @ + 1]

RECURSIVE skip_whitespace(_)
skip_whitespace(p) ==
  IF p.pos < p.length /\ ch(p) \in {" ", "\t", "\r"}
    THEN skip_whitespace(step(p))
    ELSE p

RECURSIVE skip_comment_loop(_)
skip_comment_loop(p) ==
  IF p.pos < p.length /\ ch(p) # "\n"
    THEN skip_comment_loop([p EXCEPT !.pos = @ + 1])
    ELSE p

\* skip_comment that skips the '#' and leaves the rest of the line
skip_comment_hash_only(p) ==
  IF p.pos < p.length /\ ch(p) = "#" THEN [p EXCEPT !.pos = @ + 1] ELSE p

\* skip_comment that takes the newline with the comment
skip_comment_line(p) ==
  IF p.pos < p.length /\ ch(p) = "#"
    THEN [skip_comment_loop(p) EXCEPT !.pos = IF @ < p.length THEN @ + 1 ELSE @]
    ELSE p

skip_comment(p) ==
  IF p.pos < p.length /\ ch(p) = "#" THEN skip_comment_loop(p) ELSE p

\* The state of parse_quoted_string is q = [p, buf, returned, value]:
\* q.returned says that the function has returned q.value, the copied
\* buffer or NULL.
quoted_fail(q, message) ==
  [q EXCEPT !.p = set_error(@, message), !.returned = TRUE, !.value = NULL_STR]

\* the test that follows every stored byte
quoted_overflow(q) ==
  IF Len(q.buf) >= BUFFER_SIZE - 1 THEN quoted_fail(q, "String too long") ELSE q

\* quoted_put that advances the position and leaves the column behind
quoted_put_no_column(q, b) ==
  quoted_overflow([q EXCEPT !.p.pos = @ + 1, !.buf = Append(@, b)])

\* buffer[buf_pos++] = b; parser->pos++; parser->column++
quoted_put(q, b) == quoted_overflow([q EXCEPT !.p = step(@), !.buf = Append(@, b)])

\* the switch on the byte after a backslash
Escapes == ("\"" :> "\"") @@ ("\\" :> "\\") @@ ("n" :> "\n") @@ ("t" :> "\t") @@ ("r" :> "\r")

\* quoted_escape that copies the byte after the backslash as it is
quoted_escape_raw(q) == quoted_put(q, ch(q.p))

\* q.p is at the byte after the backslash
quoted_escape(q) ==
  IF ch(q.p) \in DOMAIN Escapes
    THEN quoted_put(q, Escapes[ch(q.p)])
    ELSE quoted_fail(q, "Invalid escape sequence '\\" \o ch(q.p) \o "'")

\* one iteration of the while loop
quoted_string_body(q) ==
  IF ch(q.p) = "\""
    THEN [q EXCEPT !.p = step(@), !.returned = TRUE, !.value = q.buf]
  ELSE IF ch(q.p) = "\\" /\ q.p.pos + 1 < q.p.length
    THEN quoted_escape([q EXCEPT !.p = step(@)])
  ELSE IF ch(q.p) = "\n"
    THEN quoted_fail(q, "Unterminated string")
  ELSE quoted_put(q, ch(q.p))

\* at most n iterations of the loop, run in two halves to keep the
\* evaluation shallow; every iteration reads at least one byte
RECURSIVE quoted_string_loop(_, _)
RECURSIVE quoted_string_rest(_, _)
quoted_string_loop(q, n) ==
  IF n <= 0 \/ q.returned \/ ~(q.p.pos < q.p.length) THEN q
  ELSE IF n = 1 THEN quoted_string_body(q)
  ELSE quoted_string_rest(quoted_string_loop(q, n \div 2), n - (n \div 2))

quoted_string_rest(half, n) ==
  IF half.returned THEN half ELSE quoted_string_loop(half, n)

\* the loop has ended without a closing quote
quoted_string_end(q) ==
  IF q.returned THEN q ELSE quoted_fail(q, "Unterminated string")

\* returns q: q.p the advanced handle, q.value the token text or NULL
parse_quoted_string(p) ==
  quoted_string_end(
    quoted_string_loop([p |-> step(p), buf |-> <<>>, returned |-> FALSE,
                        value |-> NULL_STR],
                       p.length - p.pos))

\* the collecting loop without its test of pos against length
RECURSIVE unquoted_run_unguarded(_)
unquoted_run_unguarded(p) ==
  IF is_unquoted_string_char(ch(p))
    THEN unquoted_run_unguarded(step(p))
    ELSE p

RECURSIVE unquoted_run(_)
unquoted_run(p) ==
  IF p.pos < p.length /\ is_unquoted_string_char(ch(p))
    THEN unquoted_run(step(p))
    ELSE p

strdup_range(s, start, end) == SubSeq(s, start + 1, end)

Str_true == <<"t", "r", "u", "e">>

Str_false == <<"f", "a", "l", "s", "e">>

\* Token token = {0}
zero_token == [type |-> "TOKEN_EOF", value |-> NULL_STR, line |-> 0, column |-> 0]

\* a token that starts where the handle p is
Token(type, value, p) ==
  [type |-> type, value |-> value, line |-> p.line, column |-> p.column]

\* the cascade without the loop over the bytes of an identifier
token_type_first_byte(value) ==
  IF value = Str_true \/ value = Str_false THEN "TOKEN_BOOLEAN"
  ELSE IF is_valid_number(value) THEN "TOKEN_NUMBER"
  ELSE IF is_identifier_start(At(value, 0)) THEN "TOKEN_IDENTIFIER"
  ELSE "TOKEN_STRING"

\* the type of the text of an unquoted run
token_type(value) ==
  IF value = Str_true \/ value = Str_false THEN "TOKEN_BOOLEAN"
  ELSE IF is_valid_number(value) THEN "TOKEN_NUMBER"
  ELSE IF is_identifier_start(At(value, 0))
    THEN IF \A i \in 1..Len(value) : is_identifier_char(value[i])
           THEN "TOKEN_IDENTIFIER" ELSE "TOKEN_STRING"
  ELSE "TOKEN_STRING"

\* the token of the run from p to p2
unquoted_token(p, p2, value) ==
  [p |-> p2, token |-> Token(token_type(value), value, p)]

unquoted_end(p, p2) == unquoted_token(p, p2, strdup_range(p.input, p.pos, p2.pos))

\* the run skips a `-` that a digit follows, then collects
unquoted_start(p) ==
  IF ch(p) = "-" /\ p.pos + 1 < p.length /\ isdigit(At(p.input, p.pos + 1))
    THEN step(p) ELSE p

quoted_token(p, q) ==
  [p |-> q.p,
   token |-> Token(IF q.value = NULL_STR THEN "TOKEN_ERROR" ELSE "TOKEN_STRING",
                   q.value, p)]

\* next_token after the white space and the comment
next_token_at(p) ==
  IF p.pos >= p.length THEN [p |-> p, token |-> zero_token]
  ELSE IF ch(p) = "\n"
    THEN [p |-> [p EXCEPT !.pos = @ + 1, !.line = @ + 1, !.column = 1],
          token |-> Token("TOKEN_NEWLINE", NULL_STR, p)]
  ELSE IF ch(p) = "{" THEN [p |-> step(p), token |-> Token("TOKEN_LEFT_BRACE", NULL_STR, p)]
  ELSE IF ch(p) = "}" THEN [p |-> step(p), token |-> Token("TOKEN_RIGHT_BRACE", NULL_STR, p)]
  ELSE IF ch(p) = "[" THEN [p |-> step(p), token |-> Token("TOKEN_LEFT_BRACKET", NULL_STR, p)]
  ELSE IF ch(p) = "]" THEN [p |-> step(p), token |-> Token("TOKEN_RIGHT_BRACKET", NULL_STR, p)]
  ELSE IF ch(p) = "\"" THEN quoted_token(p, parse_quoted_string(p))
  ELSE IF is_identifier_start(ch(p)) \/ isdigit(ch(p)) \/ ch(p) \in {"-", "/", ".", "~"}
    THEN unquoted_end(p, unquoted_run(unquoted_start(p)))
  ELSE [p |-> set_error(p, "Unexpected character '" \o ch(p) \o "'"),
        token |-> Token("TOKEN_ERROR", NULL_STR, p)]

\* returns [p, token]: the advanced handle and the token read
next_token(p) == next_token_at(skip_whitespace(skip_comment(skip_whitespace(p))))

(***************************************************************************)
(* Value tree.  A constructor returns [heap, v]: the heap with the new     *)
(* value and its address.                                                  *)
(***************************************************************************)
\* the address malloc hands out: the lowest one not in use
alloc(h) == CHOOSE v \in 1..(Cardinality(DOMAIN h) + 1) :
              /\ v \notin DOMAIN h
              /\ \A w \in 1..(v - 1) : w \in DOMAIN h

\* the heap with the node at the address v
new_value(h, v, node) == [heap |-> h @@ (v :> node), v |-> v]

vibe_value_new_integer(h, value) ==
  new_value(h, alloc(h), [type |-> "VIBE_TYPE_INTEGER", as_integer |-> value])

vibe_value_new_float(h, value) ==
  new_value(h, alloc(h), [type |-> "VIBE_TYPE_FLOAT", as_float |-> value])

vibe_value_new_boolean(h, value) ==
  new_value(h, alloc(h), [type |-> "VIBE_TYPE_BOOLEAN", as_boolean |-> value])

vibe_value_new_string(h, value) ==
  new_value(h, alloc(h), [type |-> "VIBE_TYPE_STRING", as_string |-> value])

vibe_value_new_array(h) ==
  new_value(h, alloc(h), [type |-> "VIBE_TYPE_ARRAY", as_array |-> [values |-> <<>>]])

vibe_value_new_object(h) ==
  new_value(h, alloc(h), [type |-> "VIBE_TYPE_OBJECT", as_object |-> [entries |-> <<>>]])

\* the heap without the addresses in gone
release(h, gone) == [v \in DOMAIN h \ gone |-> h[v]]

\* the addresses of the values a node owns
children(h, v) ==
  CASE h[v].type = "VIBE_TYPE_ARRAY" ->
         {h[v].as_array.values[i] : i \in 1..Len(h[v].as_array.values)}
    [] h[v].type = "VIBE_TYPE_OBJECT" ->
         {h[v].as_object.entries[i].value : i \in 1..Len(h[v].as_object.entries)}
    [] OTHER -> {}

\* the recursion of vibe_value_free as a walk, level by level: w.seen are
\* the addresses walked so far, w.todo those whose children are still to walk
subtree_body(h, w) ==
  [seen |-> w.seen \cup w.todo,
   todo |-> UNION {children(h, v) : v \in w.todo} \ (w.seen \cup w.todo)]

\* at most n levels, run in two halves to keep the evaluation shallow
RECURSIVE subtree_loop(_, _, _)
RECURSIVE subtree_rest(_, _, _)
subtree_loop(h, w, n) ==
  IF n <= 0 \/ w.todo = {} THEN w
  ELSE IF n = 1 THEN subtree_body(h, w)
  ELSE subtree_rest(h, subtree_loop(h, w, n \div 2), n - (n \div 2))

subtree_rest(h, half, n) ==
  IF half.todo = {} THEN half ELSE subtree_loop(h, half, n)

\* the addresses of the subtree that vibe_value_free(value) walks
subtree(h, value) ==
  IF value = NULL THEN {}
  ELSE subtree_loop(h, [seen |-> {}, todo |-> {value}], Cardinality(DOMAIN h) + 1).seen

vibe_value_free(h, value) == release(h, subtree(h, value))

(***************************************************************************)
(* Scalar conversion                                                       *)
(***************************************************************************)
digit(c) == Ord[c] - 48

\* the value of the digits str[from..to) read as a decimal number
RECURSIVE decimal(_, _, _, _)
decimal(str, from, to, acc) ==
  IF from >= to THEN acc ELSE decimal(str, from + 1, to, 10 * acc + digit(At(str, from)))

\* the index of the first byte at or after from that is not a digit
RECURSIVE digits_end(_, _)
digits_end(str, from) ==
  IF isdigit(At(str, from)) THEN digits_end(str, from + 1) ELSE from

\* the number of sign bytes strtoll and strtod accept
sign_len(str) == IF At(str, 0) = "-" \/ At(str, 0) = "+" THEN 1 ELSE 0

\* the magnitude under the sign of the text
signed(str, magnitude) == IF At(str, 0) = "-" THEN -magnitude ELSE magnitude

\* the digits without their leading zeros
RECURSIVE significant(_)
significant(digits) ==
  IF Len(digits) > 1 /\ Head(digits) = "0" THEN significant(Tail(digits)) ELSE digits

\* the decimal digits of LLONG_MAX and of the magnitude of LLONG_MIN
LLONG_MAX == <<"9", "2", "2", "3", "3", "7", "2", "0", "3", "6", "8", "5", "4", "7", "7", "5", "8", "0", "7">>

LLONG_MIN == <<"9", "2", "2", "3", "3", "7", "2", "0", "3", "6", "8", "5", "4", "7", "7", "5", "8", "0", "8">>

\* the number written a is greater than the number written b, neither with
\* leading zeros
exceeds(a, b) ==
  \/ Len(a) > Len(b)
  \/ /\ Len(a) = Len(b)
     /\ \E i \in 1..Len(a) : Ord[a[i]] > Ord[b[i]] /\ \A j \in 1..(i - 1) : a[j] = b[j]

\* strtoll that keeps the digits of a value out of range
clamp_none(neg, digits) == digits

\* the magnitude strtoll returns: out of range, that of LLONG_MIN or
\* LLONG_MAX
clamp(neg, digits) ==
  IF exceeds(digits, IF neg THEN LLONG_MIN ELSE LLONG_MAX)
    THEN (IF neg THEN LLONG_MIN ELSE LLONG_MAX)
    ELSE digits

\* a long long: a value of up to nine digits is the number itself, a wider
\* one is kept as its sign and its decimal digits
long_long(neg, digits) ==
  IF Len(digits) <= 9
    THEN (IF neg THEN 0 - decimal(digits, 0, Len(digits), 0) ELSE decimal(digits, 0, Len(digits), 0))
    ELSE [neg |-> neg, digits |-> digits]

\* the digits are str[from..to)
strtoll_digits(str, from, to) ==
  IF to = from THEN [val |-> 0, endptr |-> 0]
  ELSE [val |-> long_long(At(str, 0) = "-",
                          clamp(At(str, 0) = "-", significant(SubSeq(str, from + 1, to)))),
        endptr |-> to]

strtoll_from(str, from) == strtoll_digits(str, from, digits_end(str, from))

\* strtoll(str, &endptr, 10) on text without leading white space: returns
\* [val, endptr], endptr the index where the conversion stopped
strtoll(str) == strtoll_from(str, sign_len(str))

\* a decimal fraction num / 10^exp without trailing zero digits
RECURSIVE normal(_, _)
normal(num, exp) ==
  IF exp > 0 /\ num % 10 = 0 THEN normal(num \div 10, exp - 1)
  ELSE [num |-> num, exp |-> exp]

\* the integer digits are str[from..dot), the fraction digits str[dot+1..to)
strtod_digits(str, from, dot, to) ==
  IF to = from \/ (dot = from /\ to = dot + 1) THEN [val |-> normal(0, 0), endptr |-> 0]
  ELSE IF to > dot
    THEN [val |-> normal(signed(str, decimal(str, dot + 1, to, decimal(str, from, dot, 0))),
                         to - (dot + 1)),
          endptr |-> to]
  ELSE [val |-> normal(signed(str, decimal(str, from, dot, 0)), 0), endptr |-> to]

strtod_dot(str, from, dot) ==
  strtod_digits(str, from, dot,
                IF At(str, dot) = "." THEN digits_end(str, dot + 1) ELSE dot)

strtod_from(str, from) == strtod_dot(str, from, digits_end(str, from))

\* strtod(str, &endptr) on decimal text without exponent: the double is
\* kept as the decimal fraction it was read from
strtod(str) == strtod_from(str, sign_len(str))

strchr(str, c) == \E i \in 1..Len(str) : str[i] = c

\* the value of a conversion r = [val, endptr], by the constructor for it
float_value(h, r) ==
  IF r.endptr = 0 THEN [heap |-> h, v |-> NULL] ELSE vibe_value_new_float(h, r.val)

integer_value(h, r) ==
  IF r.endptr = 0 THEN [heap |-> h, v |-> NULL] ELSE vibe_value_new_integer(h, r.val)

\* parse_value_from_token with a default case that returns a zeroed value
\* instead of no value
parse_value_from_token_zeroed(h, token) ==
  CASE token.type = "TOKEN_BOOLEAN" -> vibe_value_new_boolean(h, token.value = Str_true)
    [] token.type = "TOKEN_NUMBER" ->
         IF strchr(token.value, ".")
           THEN float_value(h, strtod(token.value))
           ELSE integer_value(h, strtoll(token.value))
    [] token.type \in {"TOKEN_STRING", "TOKEN_IDENTIFIER"} ->
         vibe_value_new_string(h, token.value)
    [] OTHER -> new_value(h, alloc(h), [type |-> "VIBE_TYPE_NULL"])

\* returns [heap, v]: the heap with the new value and its address or NULL
parse_value_from_token(h, token) ==
  CASE token.type = "TOKEN_BOOLEAN" -> vibe_value_new_boolean(h, token.value = Str_true)
    [] token.type = "TOKEN_NUMBER" ->
         IF strchr(token.value, ".")
           THEN float_value(h, strtod(token.value))
           ELSE integer_value(h, strtoll(token.value))
    [] token.type \in {"TOKEN_STRING", "TOKEN_IDENTIFIER"} ->
         vibe_value_new_string(h, token.value)
    [] OTHER -> [heap |-> h, v |-> NULL]

(***************************************************************************)
(* Object and array operations                                             *)
(***************************************************************************)
\* a search for the key that never finds it
find_key_none(entries, key) == 0

\* the index of the first entry with the key, 0 if there is none
find_key(entries, key) ==
  IF \E i \in 1..Len(entries) : entries[i].key = key
    THEN CHOOSE i \in 1..Len(entries) :
           /\ entries[i].key = key
           /\ \A j \in 1..(i - 1) : entries[j].key # key
    ELSE 0

\* vibe_object_set that replaces without freeing the value it replaces
object_set_leak(h, obj, key, value, i) ==
  IF i # 0
    THEN [h EXCEPT ![obj].as_object.entries[i].value = value]
    ELSE [h EXCEPT ![obj].as_object.entries = Append(@, [key |-> key, value |-> value])]

\* the key is at entry i, or at none if i = 0
object_set_at(h, obj, key, value, i) ==
  IF i # 0
    THEN [vibe_value_free(h, h[obj].as_object.entries[i].value)
            EXCEPT ![obj].as_object.entries[i].value = value]
    ELSE [h EXCEPT ![obj].as_object.entries = Append(@, [key |-> key, value |-> value])]

\* returns the heap after vibe_object_set(obj, key, value)
vibe_object_set(h, obj, key, value) ==
  IF obj = NULL \/ key = NULL_STR \/ value = NULL THEN h
  ELSE object_set_at(h, obj, key, value, find_key(h[obj].as_object.entries, key))

object_get_at(h, obj, i) == IF i # 0 THEN h[obj].as_object.entries[i].value ELSE NULL

vibe_object_get(h, obj, key) ==
  IF obj = NULL \/ key = NULL_STR THEN NULL
  ELSE object_get_at(h, obj, find_key(h[obj].as_object.entries, key))

\* vibe_array_push that drops a value equal to one already in the array
vibe_array_push_distinct(h, arr, value) ==
  IF arr = NULL \/ value = NULL THEN h
  ELSE IF \E i \in 1..Len(h[arr].as_array.values) : h[h[arr].as_array.values[i]] = h[value]
    THEN h
  ELSE [h EXCEPT ![arr].as_array.values = Append(@, value)]

vibe_array_push(h, arr, value) ==
  IF arr = NULL \/ value = NULL THEN h
  ELSE [h EXCEPT ![arr].as_array.values = Append(@, value)]

vibe_array_get(h, arr, index) ==
  IF arr = NULL \/ index >= Len(h[arr].as_array.values) THEN NULL
  ELSE h[arr].as_array.values[index + 1]

(***************************************************************************)
(* Parser.  The state of vibe_parse_string in its loop is                  *)
(* ps = [p, heap, root, stack, depth, returned, result, current_key,       *)
(* tokens, keys]: current_key is the local pointer, NULL_STR or the text   *)
(* it points to; tokens and keys count the token texts and the copies of   *)
(* keys that are allocated and not freed.                                  *)
(***************************************************************************)
\* token = next_token(parser): the token owns its text, if it has one
token_take(ps, token) ==
  IF token.value = NULL_STR THEN ps ELSE [ps EXCEPT !.tokens = @ + 1]

\* token_free(&token)
token_free(ps, token) ==
  IF token.value = NULL_STR THEN ps ELSE [ps EXCEPT !.tokens = @ - 1]

\* current_key = strdup(value)
key_dup(ps, value) == [ps EXCEPT !.current_key = value, !.keys = @ + 1]

\* free(current_key), which does nothing for a null pointer
key_free(ps) == IF ps.current_key = NULL_STR THEN ps ELSE [ps EXCEPT !.keys = @ - 1]

\* key_done that leaves the pointer to the freed copy in current_key
key_done_dangling(ps) == key_free(ps)

\* free(current_key); current_key = NULL
key_done(ps) == [key_free(ps) EXCEPT !.current_key = NULL_STR]

\* ParseStack stack = {0}
zero_frame == [state |-> "STATE_ROOT", container |-> NULL, current_key |-> NULL_STR]

\* the failure returns of the parse loop: the tree in progress and the
\* pending key are freed
parse_fail(ps, p) ==
  [key_free(ps) EXCEPT !.p = p, !.heap = vibe_value_free(ps.heap, ps.root),
                       !.returned = TRUE, !.result = NULL]

\* stack.depth has been incremented: the depth test, then the new frame
push_frame(ps, state, container, p) ==
  IF ps.depth >= MAX_NESTING_DEPTH
    THEN parse_fail(ps, set_error(p, "Maximum nesting depth exceeded"))
    ELSE key_done([ps EXCEPT !.p = p,
                             !.stack[ps.depth].state = state,
                             !.stack[ps.depth].container = container])

\* the new container is entered without being stored under the key
key_container_detached(ps, frame, current_key, n, state, p) ==
  push_frame([ps EXCEPT !.heap = n.heap, !.depth = @ + 1], state, n.v, p)

\* the new container n = [heap, v] is stored under the key, then entered
key_container(ps, frame, current_key, n, state, p) ==
  push_frame([ps EXCEPT !.heap = vibe_object_set(n.heap, frame.container, current_key, n.v),
                        !.depth = @ + 1],
             state, n.v, p)

\* the key, `{`: a new Object under the key and an Object frame
parse_key_object(ps, frame, current_key, p) ==
  key_container(ps, frame, current_key, vibe_value_new_object(ps.heap), "STATE_OBJECT", p)

\* the key, `[`: a new Array under the key and an Array frame
parse_key_array(ps, frame, current_key, p) ==
  key_container(ps, frame, current_key, vibe_value_new_array(ps.heap), "STATE_ARRAY", p)

\* a key whose token gives no value is set to a Null value
key_scalar_null(ps, frame, current_key, n, p) ==
  key_done([ps EXCEPT !.p = p,
                      !.heap = IF n.v # NULL
                                 THEN vibe_object_set(n.heap, frame.container, current_key, n.v)
                                 ELSE vibe_object_set(n.heap @@ (alloc(n.heap) :> [type |-> "VIBE_TYPE_NULL"]),
                                                      frame.container, current_key, alloc(n.heap))])

\* the scalar n = [heap, v] is stored under the key unless it is NULL
key_scalar(ps, frame, current_key, n, p) ==
  key_done([ps EXCEPT !.p = p,
                      !.heap = IF n.v # NULL
                                 THEN vibe_object_set(n.heap, frame.container, current_key, n.v)
                                 ELSE n.heap])

\* a closing brace or bracket peeked after the key closes the frame
parse_key_value_closing(ps, frame, current_key, next, p) ==
  IF next.type \in {"TOKEN_RIGHT_BRACE", "TOKEN_RIGHT_BRACKET"}
    THEN [key_scalar(ps, frame, current_key, parse_value_from_token(ps.heap, next), p)
            EXCEPT !.depth = IF @ > 0 THEN @ - 1 ELSE @]
    ELSE key_scalar(ps, frame, current_key, parse_value_from_token(ps.heap, next), p)

\* the key, then any other token: a scalar under the key, or nothing
parse_key_value(ps, frame, current_key, next, p) ==
  key_scalar(ps, frame, current_key, parse_value_from_token(ps.heap, next), p)

\* the key has been read and nt = [p, token] is the token peeked after it;
\* every branch ends with token_free(&next)
parse_after_key(ps, frame, current_key, nt) ==
  IF nt.token.type = "TOKEN_LEFT_BRACE"
    THEN token_free(parse_key_object(ps, frame, current_key, nt.p), nt.token)
  ELSE IF nt.token.type = "TOKEN_LEFT_BRACKET"
    THEN token_free(parse_key_array(ps, frame, current_key, nt.p), nt.token)
  ELSE token_free(parse_key_value(ps, frame, current_key, nt.token, nt.p), nt.token)

\* an identifier in key position: the key is copied, the token freed and
\* nt = [p, token] peeked
parse_key(ps, frame, token, nt) ==
  parse_after_key(token_take(token_free(key_dup(ps, token.value), token), nt.token),
                  frame, token.value, nt)

\* a `}` that leaves the frame where it is
pop_frame_none(ps, p) == [ps EXCEPT !.p = p]

\* stack.depth-- without the test for the root frame
pop_frame_unguarded(ps, p) == [ps EXCEPT !.p = p, !.depth = ps.depth - 1]

\* if (stack.depth > 0) stack.depth--
pop_frame(ps, p) ==
  [ps EXCEPT !.p = p, !.depth = IF ps.depth > 0 THEN ps.depth - 1 ELSE ps.depth]

\* a token read in a Root or Object frame
parse_in_object(ps, frame, token, p) ==
  IF token.type = "TOKEN_IDENTIFIER"
    THEN parse_key(ps, frame, token, next_token(p))
  ELSE IF token.type = "TOKEN_RIGHT_BRACE" THEN token_free(pop_frame(ps, p), token)
  ELSE [token_free(ps, token) EXCEPT !.p = p]

\* the new Object n = [heap, v] is pushed, and entered if the stack has room
array_object(ps, frame, n, p) ==
  IF ps.depth < MAX_NESTING_DEPTH - 1
    THEN [ps EXCEPT !.p = p,
                    !.heap = vibe_array_push(n.heap, frame.container, n.v),
                    !.depth = ps.depth + 1,
                    !.stack[ps.depth + 1] =
                       [state |-> "STATE_OBJECT", container |-> n.v,
                        current_key |-> NULL_STR]]
    ELSE [ps EXCEPT !.p = p,
                    !.heap = vibe_array_push(n.heap, frame.container, n.v)]

\* a token that gives no value is pushed as a Null value
array_scalar_null(ps, frame, n, p) ==
  [ps EXCEPT !.p = p,
             !.heap = IF n.v # NULL
                        THEN vibe_array_push(n.heap, frame.container, n.v)
                        ELSE vibe_array_push(n.heap @@ (alloc(n.heap) :> [type |-> "VIBE_TYPE_NULL"]),
                                             frame.container, alloc(n.heap))]

\* the scalar n = [heap, v] is pushed unless it is NULL
array_scalar(ps, frame, n, p) ==
  [ps EXCEPT !.p = p,
             !.heap = IF n.v # NULL
                        THEN vibe_array_push(n.heap, frame.container, n.v)
                        ELSE n.heap]

\* a token read in an Array frame
parse_in_array(ps, frame, token, p) ==
  IF token.type = "TOKEN_RIGHT_BRACKET" THEN token_free(pop_frame(ps, p), token)
  ELSE IF token.type = "TOKEN_LEFT_BRACE"
    THEN token_free(array_object(ps, frame, vibe_value_new_object(ps.heap), p), token)
  ELSE token_free(array_scalar(ps, frame, parse_value_from_token(ps.heap, token), p), token)

\* parse_token without the test of has_error after next_token
parse_token_type_only(ps, nt) ==
  IF nt.token.type = "TOKEN_ERROR" THEN parse_fail(token_free(ps, nt.token), nt.p)
  ELSE IF nt.token.type = "TOKEN_EOF"
    THEN [key_free(token_free(ps, nt.token)) EXCEPT !.p = nt.p, !.returned = TRUE,
                                                   !.result = ps.root]
  ELSE IF nt.token.type = "TOKEN_NEWLINE" THEN [token_free(ps, nt.token) EXCEPT !.p = nt.p]
  ELSE IF ps.stack[ps.depth].state \in {"STATE_ROOT", "STATE_OBJECT"}
    THEN parse_in_object(ps, ps.stack[ps.depth], nt.token, nt.p)
  ELSE IF ps.stack[ps.depth].state = "STATE_ARRAY"
    THEN parse_in_array(ps, ps.stack[ps.depth], nt.token, nt.p)
  ELSE [token_free(ps, nt.token) EXCEPT !.p = nt.p]

\* parse_token that takes the end of input inside an open container as an
\* error
parse_token_eof_strict(ps, nt) ==
  IF nt.token.type = "TOKEN_ERROR" \/ nt.p.error.has_error THEN parse_fail(token_free(ps, nt.token), nt.p)
  ELSE IF nt.token.type = "TOKEN_EOF"
    THEN IF ps.depth > 0
           THEN parse_fail(token_free(ps, nt.token), set_error(nt.p, "Unexpected end of input"))
           ELSE [key_free(token_free(ps, nt.token)) EXCEPT !.p = nt.p, !.returned = TRUE,
                                                          !.result = ps.root]
  ELSE IF nt.token.type = "TOKEN_NEWLINE" THEN [token_free(ps, nt.token) EXCEPT !.p = nt.p]
  ELSE IF ps.stack[ps.depth].state \in {"STATE_ROOT", "STATE_OBJECT"}
    THEN parse_in_object(ps, ps.stack[ps.depth], nt.token, nt.p)
  ELSE IF ps.stack[ps.depth].state = "STATE_ARRAY"
    THEN parse_in_array(ps, ps.stack[ps.depth], nt.token, nt.p)
  ELSE [token_free(ps, nt.token) EXCEPT !.p = nt.p]

\* parse_token that goes on to the next token after a token that failed
parse_token_error_skipped(ps, nt) ==
  IF nt.token.type = "TOKEN_ERROR" \/ nt.p.error.has_error THEN [token_free(ps, nt.token) EXCEPT !.p = nt.p]
  ELSE IF nt.token.type = "TOKEN_EOF"
    THEN [key_free(token_free(ps, nt.token)) EXCEPT !.p = nt.p, !.returned = TRUE,
                                                   !.result = ps.root]
  ELSE IF nt.token.type = "TOKEN_NEWLINE" THEN [token_free(ps, nt.token) EXCEPT !.p = nt.p]
  ELSE IF ps.stack[ps.depth].state \in {"STATE_ROOT", "STATE_OBJECT"}
    THEN parse_in_object(ps, ps.stack[ps.depth], nt.token, nt.p)
  ELSE IF ps.stack[ps.depth].state = "STATE_ARRAY"
    THEN parse_in_array(ps, ps.stack[ps.depth], nt.token, nt.p)
  ELSE [token_free(ps, nt.token) EXCEPT !.p = nt.p]

\* one iteration of the while (true) loop after nt = [p, token] was read
parse_token(ps, nt) ==
  IF nt.token.type = "TOKEN_ERROR" \/ nt.p.error.has_error THEN parse_fail(token_free(ps, nt.token), nt.p)
  ELSE IF nt.token.type = "TOKEN_EOF"
    THEN [key_free(token_free(ps, nt.token)) EXCEPT !.p = nt.p, !.returned = TRUE,
                                                   !.result = ps.root]
  ELSE IF nt.token.type = "TOKEN_NEWLINE" THEN [token_free(ps, nt.token) EXCEPT !.p = nt.p]
  ELSE IF ps.stack[ps.depth].state \in {"STATE_ROOT", "STATE_OBJECT"}
    THEN parse_in_object(ps, ps.stack[ps.depth], nt.token, nt.p)
  ELSE IF ps.stack[ps.depth].state = "STATE_ARRAY"
    THEN parse_in_array(ps, ps.stack[ps.depth], nt.token, nt.p)
  ELSE [token_free(ps, nt.token) EXCEPT !.p = nt.p]

\* token = next_token(parser) has returned nt = [p, token]
parse_next(ps, nt) == parse_token(token_take(ps, nt.token), nt)

\* one iteration of the while (true) loop of vibe_parse_string
parse_loop_body(ps) == parse_next(ps, next_token(ps.p))

\* at most n iterations of the loop, run in two halves to keep the
\* evaluation shallow; every iteration but the last reads at least one byte
RECURSIVE parse_loop(_, _)
RECURSIVE parse_rest(_, _)
parse_loop(ps, n) ==
  IF n <= 0 \/ ps.returned THEN ps
  ELSE IF n = 1 THEN parse_loop_body(ps)
  ELSE parse_rest(parse_loop(ps, n \div 2), n - (n \div 2))

parse_rest(half, n) == IF half.returned THEN half ELSE parse_loop(half, n)

\* parse_reset without the reset of has_error
parse_reset_latched(p0, input) ==
  [p0 EXCEPT !.input = input, !.length = Len(input), !.pos = 0,
             !.line = 1, !.column = 1]

\* the handle after the assignments that open vibe_parse_string
parse_reset(p0, input) ==
  [p0 EXCEPT !.input = input, !.length = Len(input), !.pos = 0,
             !.line = 1, !.column = 1, !.error.has_error = FALSE]

\* the state of the loop when it is entered with the root n = [heap, v]
parse_enter(p, n) ==
  [p |-> p, heap |-> n.heap, root |-> n.v,
   stack |-> [i \in 0..(MAX_NESTING_DEPTH - 1) |->
                IF i = 0 THEN [zero_frame EXCEPT !.state = "STATE_ROOT", !.container = n.v]
                ELSE zero_frame],
   depth |-> 0, returned |-> FALSE, result |-> NULL,
   current_key |-> NULL_STR, tokens |-> 0, keys |-> 0]

parse_start(p0, h0, input) ==
  parse_enter(parse_reset(p0, input), vibe_value_new_object(h0))

\* what the call hands back of the loop state
parse_return(ps) == [p |-> ps.p, heap |-> ps.heap, result |-> ps.result]

\* returns [p, heap, result]: the handle and the heap after the call and the
\* root of the tree or NULL
vibe_parse_string(p0, h0, input) ==
  IF input = NULL_STR THEN [p |-> p0, heap |-> h0, result |-> NULL]
  ELSE parse_return(parse_loop(parse_start(p0, h0, input), Len(input) + 2))

(***************************************************************************)
(* File loader.  A file is [name, content]; a content of NULL_STR is a     *)
(* file that fopen cannot open.                                            *)
(***************************************************************************)
vibe_parse_file(p0, h0, file) ==
  IF file.content = NULL_STR
    THEN [p |-> set_error(p0, "Cannot open file '" \o file.name \o "'"),
          heap |-> h0, result |-> NULL]
    ELSE vibe_parse_string(p0, h0, file.content)

(***************************************************************************)
(* Value access                                                            *)
(***************************************************************************)
\* the index of the first byte at or after i that is (is not) the delimiter
RECURSIVE skip_delim(_, _, _)
skip_delim(str, i, delim) ==
  IF At(str, i) = delim THEN skip_delim(str, i + 1, delim) ELSE i

RECURSIVE find_delim(_, _, _)
find_delim(str, i, delim) ==
  IF At(str, i) = delim \/ At(str, i) = "NUL" THEN i ELSE find_delim(str, i + 1, delim)

\* the token is str[start..end)
strtok_token(str, start, end) ==
  [token |-> SubSeq(str, start + 1, end),
   saveptr |-> IF At(str, end) = "NUL" THEN end ELSE end + 1]

strtok_from(str, start, delim) ==
  IF At(str, start) = "NUL" THEN [token |-> NULL_STR, saveptr |-> start]
  ELSE strtok_token(str, start, find_delim(str, start, delim))

\* strtok_r that takes a token between every two delimiters
strtok_r_empty(str, saveptr, delim) == strtok_from(str, saveptr, delim)

\* strtok_r: returns [token, saveptr], the next token at or after saveptr
strtok_r(str, saveptr, delim) == strtok_from(str, skip_delim(str, saveptr, delim), delim)

\* the loop of vibe_get when a node that is no Object is handed on to the
\* caller instead of nothing
RECURSIVE vibe_get_loop_lenient(_, _, _, _)
vibe_get_loop_lenient(h, current, path, tok) ==
  IF tok.token # NULL_STR /\ current # NULL
    THEN IF h[current].type = "VIBE_TYPE_OBJECT"
           THEN vibe_get_loop_lenient(h, vibe_object_get(h, current, tok.token), path,
                                      strtok_r(path, tok.saveptr, "."))
           ELSE current
    ELSE current

\* the while (token && current) loop, tok = [token, saveptr]
RECURSIVE vibe_get_loop(_, _, _, _)
vibe_get_loop(h, current, path, tok) ==
  IF tok.token # NULL_STR /\ current # NULL
    THEN IF h[current].type = "VIBE_TYPE_OBJECT"
           THEN vibe_get_loop(h, vibe_object_get(h, current, tok.token), path,
                              strtok_r(path, tok.saveptr, "."))
           ELSE NULL
    ELSE current

vibe_get(h, value, path) ==
  IF value = NULL \/ path = NULL_STR THEN NULL
  ELSE vibe_get_loop(h, value, path, strtok_r(path, 0, "."))

\* VibeValue* v = path ? vibe_get(value, path) : value
resolve(h, value, path) == IF path # NULL_STR THEN vibe_get(h, value, path) ELSE value

\* the payload of v if it has the variant, or the sentinel
string_of(h, v) ==
  IF v = NULL \/ h[v].type # "VIBE_TYPE_STRING" THEN NULL_STR ELSE h[v].as_string

\* int_of that converts a Float instead of refusing it
int_of_coerced(h, v) ==
  IF v = NULL THEN 0
  ELSE IF h[v].type = "VIBE_TYPE_INTEGER" THEN h[v].as_integer
  ELSE IF h[v].type = "VIBE_TYPE_FLOAT" THEN h[v].as_float.num
  ELSE 0

int_of(h, v) ==
  IF v = NULL \/ h[v].type # "VIBE_TYPE_INTEGER" THEN 0 ELSE h[v].as_integer

float_of(h, v) ==
  IF v = NULL \/ h[v].type # "VIBE_TYPE_FLOAT" THEN normal(0, 0) ELSE h[v].as_float

bool_of(h, v) ==
  IF v = NULL \/ h[v].type # "VIBE_TYPE_BOOLEAN" THEN FALSE ELSE h[v].as_boolean

\* the VibeArray of an Array value goes by the address of the value
array_of(h, v) ==
  IF v = NULL \/ h[v].type # "VIBE_TYPE_ARRAY" THEN NULL ELSE v

\* the VibeObject of an Object value goes by the address of the value
object_of(h, v) ==
  IF v = NULL \/ h[v].type # "VIBE_TYPE_OBJECT" THEN NULL ELSE v

vibe_get_string(h, value, path) == string_of(h, resolve(h, value, path))

vibe_get_int(h, value, path) == int_of(h, resolve(h, value, path))

vibe_get_float(h, value, path) == float_of(h, resolve(h, value, path))

vibe_get_bool(h, value, path) == bool_of(h, resolve(h, value, path))

vibe_get_array(h, value, path) == array_of(h, resolve(h, value, path))

vibe_get_object(h, value, path) == object_of(h, resolve(h, value, path))

(***************************************************************************)
(* Debug dump                                                              *)
(***************************************************************************)
DigitChars == <<"0", "1", "2", "3", "4", "5", "6", "7", "8", "9">>

\* the decimal digits of n >= 0
RECURSIVE print_digits(_)
print_digits(n) ==
  IF n < 10 THEN <<DigitChars[n + 1]>>
  ELSE print_digits(n \div 10) \o <<DigitChars[(n % 10) + 1]>>

\* printf("%lld", n)
print_lld(n) == IF n < 0 THEN <<"-">> \o print_digits(-n) ELSE print_digits(n)

RECURSIVE pow10(_)
pow10(n) == IF n = 0 THEN 1 ELSE 10 * pow10(n - 1)

\* digs with zeros in front up to n digits
RECURSIVE print_padded(_, _)
print_padded(digs, n) == IF Len(digs) >= n THEN digs ELSE print_padded(<<"0">> \o digs, n)

\* the digits of the magnitude num / 10^exp in fixed notation, as %g writes
\* them: no trailing zeros, no point without a fraction
print_fixed(num, exp) ==
  IF exp = 0 THEN print_digits(num)
  ELSE print_digits(num \div pow10(exp)) \o <<".">>
         \o print_padded(print_digits(num % pow10(exp)), exp)

\* printf("%g", val) for val = num / 10^exp of at most six significant
\* digits and of magnitude zero or in [1e-4, 1e6), where %g writes every
\* digit in fixed notation; other values are not written by this model
print_g(val) ==
  CASE val.num >= 0 /\ val.num < 1000000 /\ val.exp <= 9
         /\ val.num * 10000 >= (IF val.num = 0 THEN 0 ELSE pow10(val.exp)) ->
         print_fixed(val.num, val.exp)
    [] val.num < 0 /\ -val.num < 1000000 /\ val.exp <= 9
         /\ -val.num * 10000 >= pow10(val.exp) ->
         <<"-">> \o print_fixed(-val.num, val.exp)

\* indent_str written n times
print_indent(n) == [i \in 1..(2 * n) |-> " "]

Str_null == <<"n", "u", "l", "l">>

\* what vibe_value_print(value, indent) writes; print_values and
\* print_entries are its loops over values[i..] and entries[i..]
RECURSIVE vibe_value_print(_, _, _)
RECURSIVE print_values(_, _, _, _)
RECURSIVE print_entries(_, _, _, _)
vibe_value_print(h, value, indent) ==
  IF value = NULL THEN <<>>
  ELSE CASE h[value].type = "VIBE_TYPE_INTEGER" -> print_lld(h[value].as_integer)
         [] h[value].type = "VIBE_TYPE_FLOAT" -> print_g(h[value].as_float)
         [] h[value].type = "VIBE_TYPE_BOOLEAN" ->
              IF h[value].as_boolean THEN Str_true ELSE Str_false
         [] h[value].type = "VIBE_TYPE_STRING" ->
              <<"\"">> \o h[value].as_string \o <<"\"">>
         [] h[value].type = "VIBE_TYPE_ARRAY" ->
              <<"[", "\n">> \o print_values(h, h[value].as_array.values, 1, indent)
                \o print_indent(indent) \o <<"]">>
         [] h[value].type = "VIBE_TYPE_OBJECT" ->
              <<"{", "\n">> \o print_entries(h, h[value].as_object.entries, 1, indent)
                \o print_indent(indent) \o <<"}">>
         [] OTHER -> Str_null

print_values(h, values, i, indent) ==
  IF i > Len(values) THEN <<>>
  ELSE print_indent(indent + 1) \o vibe_value_print(h, values[i], indent + 1) \o <<"\n">>
         \o print_values(h, values, i + 1, indent)

print_entries(h, entries, i, indent) ==
  IF i > Len(entries) THEN <<>>
  ELSE print_indent(indent + 1) \o entries[i].key \o <<":", " ">>
         \o vibe_value_print(h, entries[i].value, indent + 1) \o <<"\n">>
         \o print_entries(h, entries, i + 1, indent)

(***************************************************************************)
(* The tree below an address as a value: what a caller can observe of it   *)
(***************************************************************************)
RECURSIVE tree(_, _)
tree(h, v) ==
  CASE h[v].type = "VIBE_TYPE_ARRAY" ->
         [type |-> h[v].type,
          values |-> [i \in 1..Len(h[v].as_array.values) |->
                        tree(h, h[v].as_array.values[i])]]
    [] h[v].type = "VIBE_TYPE_OBJECT" ->
         [type |-> h[v].type,
          entries |-> [i \in 1..Len(h[v].as_object.entries) |->
                         [key |-> h[v].as_object.entries[i].key,
                          value |-> tree(h, h[v].as_object.entries[i].value)]]]
    [] OTHER -> h[v]

(***************************************************************************)
(* Inputs                                                                  *)
(***************************************************************************)
MaxLexemes == 4

Lexemes == {<<"a", " ">>, <<"7", " ">>, <<"{">>, <<"}">>, <<"[">>, <<"]">>,
            <<"\"">>, <<"\\">>, <<"?">>, <<"\n">>}

RECURSIVE Flatten(_)
Flatten(ss) == IF Len(ss) = 0 THEN <<>> ELSE Head(ss) \o Flatten(Tail(ss))

\* k{ n times: n keyed Objects inside one another
Nest(n) == [i \in 1..(2 * n) |-> IF i % 2 = 1 THEN "k" ELSE "{"]

\* a quoted string with a payload of n bytes after the prefix
Quoted(prefix, n) == prefix \o <<"\"">> \o [i \in 1..n |-> "x"] \o <<"\"">>

\* the places where the lexer can fail: key position, the token peeked
\* after a key, inside an array
Prefixes == {<<>>, <<"k", " ">>, <<"k", "[">>}

\* text at which the lexer fails: an unexpected character, an unterminated
\* string, an invalid escape, a string too long
BadTokens == {<<"?">>, <<"\"", "x">>, <<"\"", "\\", "q", "\"">>, Quoted(<<>>, BUFFER_SIZE + 1)}

LexerErrorInputs == {prefix \o bad : prefix \in Prefixes, bad \in BadTokens}

BoundaryInputs ==
  {Nest(n) : n \in (MAX_NESTING_DEPTH - 2)..(MAX_NESTING_DEPTH + 1)}
    \cup {Quoted(<<"k", " ">>, n) : n \in (BUFFER_SIZE - 3)..(BUFFER_SIZE + 1)}
    \cup LexerErrorInputs

Inputs ==
  {Flatten(ss) : ss \in UNION {[1..n -> Lexemes] : n \in 0..MaxLexemes}}
    \cup BoundaryInputs

Files == {[name |-> "missing", content |-> NULL_STR],
          [name |-> "ok", content |-> <<"a", " ", "7", "\n">>],
          [name |-> "bad", content |-> <<"a", " ", "\"">>]}

(***************************************************************************)
(* The calls of a client                                                   *)
(***************************************************************************)
Empty == [v \in {} |-> NULL]

\* no vibe_parse_string call is in progress
Idle == [returned |-> TRUE, result |-> NULL]

Init ==
  /\ parser = vibe_parser_new
  /\ heap = Empty
  /\ root = NULL
  /\ fresh = NULL
  /\ ret = [op |-> "vibe_parser_new"]
  /\ ncalls = 0
  /\ nsets = 0
  /\ run = Idle
  /\ freed = <<>>

\* a parse call with the argument arg has returned r = [p, heap, result]
ParseReturn(op, arg, r) ==
  /\ root = NULL
  /\ parser' = r.p
  /\ heap' = r.heap
  /\ root' = r.result
  /\ ret' = [op |-> op, arg |-> arg, result |-> r.result]
  /\ ncalls' = ncalls + 1
  /\ UNCHANGED <<freed, fresh, nsets, run>>

ParseStringOn(input) ==
  ParseReturn("vibe_parse_string", input, vibe_parse_string(parser, heap, input))

ParseFileOn(file) ==
  ParseReturn("vibe_parse_file", file, vibe_parse_file(parser, heap, file))

ValueFree ==
  /\ root # NULL
  /\ heap' = vibe_value_free(heap, root)
  /\ root' = NULL
  /\ ret' = [op |-> "vibe_value_free"]
  /\ UNCHANGED <<freed, parser, fresh, ncalls, nsets, run>>

(***************************************************************************)
(* One parse on a fresh handle, over all short inputs                      *)
(***************************************************************************)
ParseString == ncalls = 0 /\ \E input \in Inputs : ParseStringOn(input)

ParseFile == ncalls = 0 /\ \E file \in Files : ParseFileOn(file)

Next == ParseString \/ ParseFile \/ ValueFree

Spec == Init /\ [][Next]_vars

(***************************************************************************)
(* A handle used for several parses in a row                               *)
(***************************************************************************)
MaxCalls == 3

Corpus ==
  { <<>>,
    <<"a", " ", "7", "\n">>,
    <<"a", "{", "b", " ", "7", "}">>,
    <<"a", " ", "\"">>,
    <<"\n", "\n", " ", "?">>,
    <<"a", "[", "7", " ", "\"", "\\", "q", "\"", "]">>,
    Nest(MAX_NESTING_DEPTH) }

ReuseParseString == ncalls < MaxCalls /\ \E input \in Corpus : ParseStringOn(input)

ReuseParseFile == ncalls < MaxCalls /\ \E file \in Files : ParseFileOn(file)

NextReuse == ReuseParseString \/ ReuseParseFile \/ ValueFree

SpecReuse == Init /\ [][NextReuse]_vars

(***************************************************************************)
(* Lookups in a parsed tree                                                *)
(***************************************************************************)
MaxPath == 3

PathKeys == {<<"a">>, <<"b">>}

\* the key sequences of the paths looked up
KeySeqs == UNION {[1..n -> PathKeys] : n \in 0..MaxPath}

\* the dotted path of a key sequence
RECURSIVE Join(_)
Join(keys) ==
  IF Len(keys) = 0 THEN <<>>
  ELSE IF Len(keys) = 1 THEN keys[1]
  ELSE keys[1] \o <<".">> \o Join(Tail(keys))

\* a.a.a = 7, a.a.b = true, a.b = 2.5, b = [1, x]
Mixed ==
  <<"a", "{", "a", "{", "a", " ", "7", "\n", "b", " ", "t", "r", "u", "e", "\n", "}", "\n",
    "b", " ", "2", ".", "5", "\n", "}", "\n", "b", "[", "1", " ", "x", "]", "\n">>

GetCorpus ==
  { <<>>,
    Mixed,
    <<"a", " ", "x", "\n", "b", " ", "-", "3", "\n">>,
    <<"a", " ", "\"", "h", " ", "i", "\"", "\n", "b", " ", "0", ".", "0", "\n">>,
    <<"a", "[", "{", "a", " ", "0", "\n", "}", "]", "\n", "b", " ", "f", "a", "l", "s", "e">> }

GetParse == ncalls = 0 /\ \E input \in GetCorpus : ParseStringOn(input)

\* the (value, path) arguments of the typed accessors: a path from the root,
\* or a node of the tree and the null path
TypedArgs ==
  {[value |-> root, path |-> Join(keys), keys |-> keys] : keys \in KeySeqs}
    \cup {[value |-> v, path |-> NULL_STR, keys |-> <<>>] : v \in subtree(heap, root)}

\* a lookup with the arguments a has returned result
Looked(op, a, result) ==
  /\ ret' = [op |-> op, value |-> a.value, path |-> a.path, keys |-> a.keys,
             result |-> result]
  /\ UNCHANGED <<freed, parser, heap, root, fresh, ncalls, nsets, run>>

Get ==
  \E keys \in KeySeqs :
     Looked("vibe_get", [value |-> root, path |-> Join(keys), keys |-> keys],
            vibe_get(heap, root, Join(keys)))

GetString ==
  \E a \in TypedArgs : Looked("vibe_get_string", a, vibe_get_string(heap, a.value, a.path))

GetInt ==
  \E a \in TypedArgs : Looked("vibe_get_int", a, vibe_get_int(heap, a.value, a.path))

GetFloat ==
  \E a \in TypedArgs : Looked("vibe_get_float", a, vibe_get_float(heap, a.value, a.path))

GetBool ==
  \E a \in TypedArgs : Looked("vibe_get_bool", a, vibe_get_bool(heap, a.value, a.path))

GetArray ==
  \E a \in TypedArgs : Looked("vibe_get_array", a, vibe_get_array(heap, a.value, a.path))

GetObject ==
  \E a \in TypedArgs : Looked("vibe_get_object", a, vibe_get_object(heap, a.value, a.path))

NextGet ==
  \/ GetParse \/ Get \/ GetString \/ GetInt \/ GetFloat \/ GetBool \/ GetArray
  \/ GetObject \/ ValueFree

SpecGet == Init /\ [][NextGet]_vars

(***************************************************************************)
(* A tree that the caller edits with vibe_object_set                       *)
(***************************************************************************)
MaxSets == 2

SetKeys == {<<"a">>, <<"b">>}

TreeCorpus ==
  { <<>>,
    <<"a", " ", "1", "\n", "b", " ", "2", "\n", "a", " ", "3", "\n">>,
    <<"a", "{", "b", " ", "1", "\n", "}", "\n">>,
    <<"a", "{", "b", "[", "1", "]", "\n", "}", "\n", "a", " ", "x", "\n">> }

TreeParse == ncalls = 0 /\ \E input \in TreeCorpus : ParseStringOn(input)

\* the caller has made the value n = [heap, v]
Made(n) ==
  /\ fresh = NULL
  /\ heap' = n.heap
  /\ fresh' = n.v
  /\ ret' = [op |-> "vibe_value_new", result |-> n.v]
  /\ UNCHANGED <<freed, parser, root, ncalls, nsets, run>>

NewInteger == Made(vibe_value_new_integer(heap, 9))

NewString == Made(vibe_value_new_string(heap, <<"s">>))

NewObject == Made(vibe_value_new_object(heap))

\* the Objects of the tree the caller holds
Objects == {v \in subtree(heap, root) : heap[v].type = "VIBE_TYPE_OBJECT"}

\* vibe_object_set(obj, key, fresh): the Object takes the value over; the
\* call is recorded with the value the key had and the number of live values
ObjectSetOn(obj, key) ==
  /\ heap' = vibe_object_set(heap, obj, key, fresh)
  /\ fresh' = NULL
  /\ nsets' = nsets + 1
  /\ ret' = [op |-> "vibe_object_set", obj |-> obj, key |-> key, value |-> fresh,
             old |-> vibe_object_get(heap, obj, key),
             live |-> Cardinality(DOMAIN heap)]
  /\ UNCHANGED <<freed, parser, root, ncalls, run>>

ObjectSet ==
  /\ fresh # NULL
  /\ nsets < MaxSets
  /\ \E obj \in Objects : \E key \in SetKeys : ObjectSetOn(obj, key)

NextTree == TreeParse \/ NewInteger \/ NewString \/ NewObject \/ ObjectSet \/ ValueFree

SpecTree == Init /\ [][NextTree]_vars

(***************************************************************************)
(* Properties of one parse                                                 *)
(***************************************************************************)
IsParseString == ret.op = "vibe_parse_string"

\* C1: the root of a tree returned by vibe_parse_string is an Object, and
\* no value of the returned tree has the Null variant
C1_RootObjectNoNull ==
  (IsParseString /\ ret.result # NULL) =>
     /\ root = ret.result
     /\ heap[root].type = "VIBE_TYPE_OBJECT"
     /\ \A v \in subtree(heap, root) : heap[v].type # "VIBE_TYPE_NULL"

\* a returned tree with an Object inside the root and a value inside that
C1_Witness ==
  /\ IsParseString /\ ret.result # NULL
  /\ \E v \in children(heap, root) :
        /\ heap[v].type = "VIBE_TYPE_OBJECT"
        /\ children(heap, v) # {}

\* C2: vibe_parse_string returns no tree exactly when the error record has
\* has_error set on return; a lexer error in key position, in the token
\* peeked after a key or inside an array makes the parse return no tree
C2_NoTreeIffError ==
  IsParseString =>
     /\ (ret.result = NULL) <=> parser.error.has_error
     /\ ret.arg \in LexerErrorInputs =>
          (ret.result = NULL /\ parser.error.has_error)

\* the lexer failed at end of input on the token peeked after a key
C2_Witness ==
  /\ IsParseString /\ ret.result = NULL
  /\ ret.arg = <<"k", " ", "\"", "x">>
  /\ parser.error.message = "Unterminated string"
  /\ parser.pos = parser.length

\* C9 as claimed: MAX_NESTING_DEPTH keyed Objects inside one another parse,
\* one more fails with "Maximum nesting depth exceeded"
C9_Nest64Succeeds ==
  IsParseString =>
     /\ ret.arg = Nest(MAX_NESTING_DEPTH) =>
          (ret.result # NULL /\ ~parser.error.has_error)
     /\ ret.arg = Nest(MAX_NESTING_DEPTH + 1) =>
          /\ ret.result = NULL
          /\ parser.error.has_error
          /\ parser.error.message = "Maximum nesting depth exceeded"

\* C10 as claimed: a quoted string with a payload of BUFFER_SIZE - 1 bytes
\* is stored with that length, one of BUFFER_SIZE + 1 bytes fails with
\* "String too long"
C10_Quoted4095Accepted ==
  IsParseString =>
     /\ ret.arg = Quoted(<<"k", " ">>, BUFFER_SIZE - 1) =>
          /\ ret.result # NULL
          /\ Len(vibe_get_string(heap, root, <<"k">>)) = BUFFER_SIZE - 1
     /\ ret.arg = Quoted(<<"k", " ">>, BUFFER_SIZE + 1) =>
          /\ ret.result = NULL
          /\ parser.error.has_error
          /\ parser.error.message = "String too long"

(***************************************************************************)
(* Properties of a handle that is used again                               *)
(***************************************************************************)
\* C7 as claimed: parse_file on a file that cannot be opened returns no
\* tree and leaves has_error set with the message naming the file
C7_CannotOpenMessage ==
  (ret.op = "vibe_parse_file" /\ ret.arg.content = NULL_STR) =>
     /\ ret.result = NULL
     /\ parser.error.has_error
     /\ parser.error.message = "Cannot open file '" \o ret.arg.name \o "'"

\* what a caller sees of a parse: the tree, or the error record
Outcome(p, h, result) ==
  IF result # NULL
    THEN [ok |-> TRUE, tree |-> tree(h, result), has_error |-> p.error.has_error,
          message |-> "", line |-> 0, column |-> 0]
    ELSE [ok |-> FALSE, tree |-> [type |-> "none"], has_error |-> p.error.has_error,
          message |-> p.error.message, line |-> p.error.line,
          column |-> p.error.column]

\* the outcome of the parse r = [p, heap, result]
OutcomeOf(r) == Outcome(r.p, r.heap, r.result)

\* C8: the outcome of vibe_parse_string on a handle with any history is the
\* outcome of parsing the same input on a fresh handle
C8_PureInInput ==
  IsParseString =>
     Outcome(parser, heap, ret.result)
        = OutcomeOf(vibe_parse_string(vibe_parser_new, Empty, ret.arg))

\* a successful parse on a handle that still holds the message of an
\* earlier failed parse
C8_Witness ==
  /\ IsParseString /\ ret.result # NULL /\ ncalls >= 2
  /\ parser.error.message # NULL_MSG
  /\ children(heap, root) # {}

(***************************************************************************)
(* Properties of the lookups                                               *)
(***************************************************************************)
\* vibe_object_get applied with the keys one after the other, nothing once
\* a node is absent or is no Object
RECURSIVE Walk(_, _, _)
Walk(h, v, keys) ==
  IF Len(keys) = 0 THEN v
  ELSE IF v = NULL THEN NULL
  ELSE IF h[v].type # "VIBE_TYPE_OBJECT" THEN NULL
  ELSE Walk(h, vibe_object_get(h, v, Head(keys)), Tail(keys))

\* the node a lookup is about: the end of the walk along its keys, or the
\* node itself under the null path
Target == Walk(heap, ret.value, ret.keys)

HasType(v, type) == v # NULL /\ heap[v].type = type

\* C3: vibe_get(root, k1.k2...kn) returns the value that vibe_object_get
\* yields when applied with k1, ..., kn in turn from the root, and nothing
\* once a key is absent or a node on the way is an Array or a scalar
C3_GetIsObjectGetWalk ==
  ret.op = "vibe_get" =>
     /\ ret.result = Target
     /\ \A n \in 1..Len(ret.keys) :
           ~HasType(Walk(heap, ret.value, SubSeq(ret.keys, 1, n - 1)), "VIBE_TYPE_OBJECT")
              => ret.result = NULL

\* a path of three keys that ends at a scalar
C3_Witness ==
  /\ ret.op = "vibe_get" /\ Len(ret.keys) = 3
  /\ ret.result # NULL
  /\ heap[ret.result].type = "VIBE_TYPE_INTEGER"

\* C4: a typed accessor returns the payload when the resolved value, or the
\* node itself under the null path, has exactly its variant, and its
\* sentinel NULL / 0 / 0.0 / false otherwise
C4_TypedNeverCoerce ==
  /\ ret.op = "vibe_get_string" =>
        ret.result = IF HasType(Target, "VIBE_TYPE_STRING")
                       THEN heap[Target].as_string ELSE NULL_STR
  /\ ret.op = "vibe_get_int" =>
        ret.result = IF HasType(Target, "VIBE_TYPE_INTEGER")
                       THEN heap[Target].as_integer ELSE 0
  /\ ret.op = "vibe_get_float" =>
        ret.result = IF HasType(Target, "VIBE_TYPE_FLOAT")
                       THEN heap[Target].as_float ELSE [num |-> 0, exp |-> 0]
  /\ ret.op = "vibe_get_bool" =>
        ret.result = IF HasType(Target, "VIBE_TYPE_BOOLEAN")
                       THEN heap[Target].as_boolean ELSE FALSE
  /\ ret.op = "vibe_get_array" =>
        ret.result = IF HasType(Target, "VIBE_TYPE_ARRAY") THEN Target ELSE NULL
  /\ ret.op = "vibe_get_object" =>
        ret.result = IF HasType(Target, "VIBE_TYPE_OBJECT") THEN Target ELSE NULL

\* get_int on a path that ends at the Float 2.5 has returned 0
C4_Witness ==
  /\ ret.op = "vibe_get_int" /\ ret.path = <<"a", ".", "b">>
  /\ HasType(Target, "VIBE_TYPE_FLOAT")
  /\ heap[Target].as_float = [num |-> 25, exp |-> 1]
  /\ ret.result = 0

(***************************************************************************)
(* Properties of vibe_object_set                                           *)
(***************************************************************************)
Entries(h, obj) == h[obj].as_object.entries

\* C5: no Object, parsed or edited with vibe_object_set, has two entries
\* with the same key
C5_UniqueKeys ==
  \A v \in DOMAIN heap :
     heap[v].type = "VIBE_TYPE_OBJECT" =>
        \A i, j \in 1..Len(Entries(heap, v)) :
           Entries(heap, v)[i].key = Entries(heap, v)[j].key => i = j

\* the second vibe_object_set of the caller has set a key that the Object
\* had, and the Object has another key as well
C5_Witness ==
  /\ ret.op = "vibe_object_set" /\ nsets = 2
  /\ ret.old # NULL
  /\ Len(Entries(heap, ret.obj)) >= 2

\* the Object has an entry with the key
HasKey(h, obj, key) == \E i \in 1..Len(Entries(h, obj)) : Entries(h, obj)[i].key = key

\* the position of the first appearance of the key
FirstAt(h, obj, key) ==
  CHOOSE i \in 1..Len(Entries(h, obj)) :
     /\ Entries(h, obj)[i].key = key
     /\ \A j \in 1..(i - 1) : Entries(h, obj)[j].key # key

\* from the heap h to the heap h2 the entry i of obj has taken the value,
\* nothing else has changed, and the value it had is gone with its subtree
ReplacedAt(h, h2, obj, key, value, i) ==
  /\ Len(Entries(h2, obj)) = Len(Entries(h, obj))
  /\ Entries(h2, obj)[i] = [key |-> key, value |-> value]
  /\ \A j \in 1..Len(Entries(h, obj)) : j # i => Entries(h2, obj)[j] = Entries(h, obj)[j]
  /\ vibe_object_get(h2, obj, key) = value
  /\ subtree(h, Entries(h, obj)[i].value) \cap DOMAIN h2 = {}
  /\ \A v \in DOMAIN h2 \ {obj} : h2[v] = h[v]
  /\ DOMAIN h2 = DOMAIN h \ subtree(h, Entries(h, obj)[i].value)

\* every live value is in the tree or is the value the caller has made
NoGarbage == DOMAIN heap = subtree(heap, root) \cup subtree(heap, fresh)

\* C6: vibe_object_set on a key the Object has replaces the value in place:
\* same count, same position, other entries unchanged, vibe_object_get
\* returns the new value, the old value and its subtree are freed; a
\* duplicate key of the input leaves the last value and no unreachable value
C6_ReplaceInPlace ==
  /\ [][(ret'.op = "vibe_object_set" /\ HasKey(heap, ret'.obj, ret'.key)) =>
          ReplacedAt(heap, heap', ret'.obj, ret'.key, ret'.value,
                     FirstAt(heap, ret'.obj, ret'.key))]_vars
  /\ [](NoGarbage /\ (IsParseString /\ ret.arg = <<"a", " ", "1", "\n", "b", " ", "2", "\n", "a", " ", "3", "\n">>
                        => /\ Len(Entries(heap, root)) = 2
                           /\ Entries(heap, root)[1].key = <<"a">>
                           /\ vibe_get_int(heap, root, <<"a">>) = 3))

\* vibe_object_set has replaced an Object that had a value inside: two
\* values or more are gone
C6_Witness ==
  /\ ret.op = "vibe_object_set"
  /\ ret.old # NULL /\ ret.old \notin DOMAIN heap
  /\ Cardinality(DOMAIN heap) <= ret.live - 2
  /\ vibe_object_get(heap, ret.obj, ret.key) = ret.value

(***************************************************************************)
(* Parses of texts built from a form: the form is recorded with the call   *)
(***************************************************************************)
\* vibe_parse_string(parser, input) has returned r = [p, heap, result]
ParseFormReturn(form, input, r) ==
  /\ root = NULL
  /\ ncalls = 0
  /\ parser' = r.p
  /\ heap' = r.heap
  /\ root' = r.result
  /\ ret' = [op |-> "vibe_parse_string", arg |-> input, result |-> r.result,
             form |-> form]
  /\ ncalls' = ncalls + 1
  /\ UNCHANGED <<freed, fresh, nsets, run>>

ParseFormOn(form, input) ==
  ParseFormReturn(form, input, vibe_parse_string(parser, heap, input))

\* the form of the last parse is of the kind
IsForm(kind) == ret.op = "vibe_parse_string" /\ "form" \in DOMAIN ret /\ ret.form.kind = kind

\* where a value is written: after a key, or inside an array after a key
ValuePrefixes == {<<"k", " ">>, <<"k", "[">>}

\* the value written after the prefix, in a tree that was returned
ValueAfter(prefix) ==
  IF prefix = <<"k", " ">> THEN vibe_get(heap, root, <<"k">>)
  ELSE vibe_array_get(heap, vibe_get_array(heap, root, <<"k">>), 0)

(***************************************************************************)
(* Quoted strings written piece by piece                                   *)
(***************************************************************************)
MaxPieces == 2

\* a piece of the payload as written and the byte it stands for; "BAD" for
\* a backslash before a byte that is no escape
QuotedPieces ==
  { [text |-> <<"\\", "\"">>, byte |-> "\""],
    [text |-> <<"\\", "\\">>, byte |-> "\\"],
    [text |-> <<"\\", "n">>, byte |-> "\n"],
    [text |-> <<"\\", "t">>, byte |-> "\t"],
    [text |-> <<"\\", "r">>, byte |-> "\r"],
    [text |-> <<"x">>, byte |-> "x"],
    [text |-> <<" ">>, byte |-> " "],
    [text |-> <<"\t">>, byte |-> "\t"],
    [text |-> <<"#">>, byte |-> "#"],
    [text |-> <<"{">>, byte |-> "{"],
    [text |-> <<"\\", "q">>, byte |-> "BAD"],
    [text |-> <<"\\", "0">>, byte |-> "BAD"],
    [text |-> <<"\\", " ">>, byte |-> "BAD"] }

PieceSeqs == UNION {[1..n -> QuotedPieces] : n \in 0..MaxPieces}

\* the pieces as written
RECURSIVE PiecesText(_)
PiecesText(pieces) ==
  IF Len(pieces) = 0 THEN <<>> ELSE Head(pieces).text \o PiecesText(Tail(pieces))

ParseQuoted ==
  \E prefix \in ValuePrefixes : \E pieces \in PieceSeqs :
     ParseFormOn([kind |-> "quoted", prefix |-> prefix, pieces |-> pieces],
                 prefix \o <<"\"">> \o PiecesText(pieces) \o <<"\"">>)

\* C11: the escapes \" \\ \n \t \r decode to one byte each, every other
\* byte is copied, the stored text has no surrounding quotes, and a
\* backslash before any other byte fails with "Invalid escape sequence"
\* naming that byte
C11_EscapesDecode ==
  IsForm("quoted") =>
     IF \A i \in 1..Len(ret.form.pieces) : ret.form.pieces[i].byte # "BAD"
       THEN /\ ret.result # NULL
            /\ ~parser.error.has_error
            /\ vibe_get_string(heap, ValueAfter(ret.form.prefix), NULL_STR)
                 = [i \in 1..Len(ret.form.pieces) |-> ret.form.pieces[i].byte]
       ELSE /\ ret.result = NULL
            /\ parser.error.has_error
            /\ \E i \in 1..Len(ret.form.pieces) :
                  /\ ret.form.pieces[i].byte = "BAD"
                  /\ \A j \in 1..(i - 1) : ret.form.pieces[j].byte # "BAD"
                  /\ parser.error.message =
                       "Invalid escape sequence '\\" \o ret.form.pieces[i].text[2] \o "'"

\* an escaped quote and an escaped newline have been stored as two bytes
C11_Witness ==
  /\ IsForm("quoted") /\ ret.result # NULL
  /\ ret.form.prefix = <<"k", " ">>
  /\ ret.arg = <<"k", " ", "\"", "\\", "\"", "\\", "n", "\"">>
  /\ vibe_get_string(heap, root, <<"k">>) = <<"\"", "\n">>

(***************************************************************************)
(* Quoted strings without a closing quote                                  *)
(***************************************************************************)
\* the text before the line of the string
OpenLeads == {<<>>, <<"a", " ", "1", "\n">>, <<"\n", "\n">>, <<" ", " ">>, <<"#", "c", "\n">>}

\* where the string is written: as a key, after a key, inside an array
OpenPlaces == {<<>>, <<"k", " ">>, <<"k", "[">>}

\* the payload as written; the last one ends in a backslash
OpenBodies == {<<>>, <<"x">>, <<"x", " ", "y">>, <<"\\", "\"">>, <<"\\", "t", "x">>,
               <<"x", "\\">>}

\* what follows the payload: the end of input, or a raw newline and more
OpenTails == {<<>>, <<"\n">>, <<"\n", "b", " ", "2", "\n">>}

\* a backslash before the raw newline would make an escape of it
OpenForms ==
  {f \in [kind : {"open"}, lead : OpenLeads, place : OpenPlaces, body : OpenBodies,
          tail : OpenTails] :
     f.body = <<"x", "\\">> => f.tail = <<>>}

\* the text up to the raw newline or the end of input
OpenText(f) == f.lead \o f.place \o <<"\"">> \o f.body

ParseOpen == \E f \in OpenForms : ParseFormOn(f, OpenText(f) \o f.tail)

\* the 1-indexed line and column of the byte after the first n bytes
LineAfter(text, n) == 1 + Cardinality({i \in 1..n : text[i] = "\n"})

ColumnAfter(text, n) ==
  n + 1 - (IF \E i \in 1..n : text[i] = "\n"
             THEN CHOOSE i \in 1..n : text[i] = "\n" /\ \A j \in (i + 1)..n : text[j] # "\n"
             ELSE 0)

\* C12: a quoted string that meets a raw newline or the end of input before
\* its closing quote fails with "Unterminated string", and the error record
\* has the line and column of that newline or of the end of input
C12_UnterminatedPosition ==
  IsForm("open") =>
     /\ ret.result = NULL
     /\ parser.error.has_error
     /\ parser.error.message = "Unterminated string"
     /\ parser.error.line = LineAfter(OpenText(ret.form), Len(OpenText(ret.form)))
     /\ parser.error.column = ColumnAfter(OpenText(ret.form), Len(OpenText(ret.form)))

\* a string opened at column 3 of line 2 that runs into the newline at
\* column 7
C12_Witness ==
  /\ IsForm("open") /\ ret.result = NULL
  /\ ret.arg = <<"a", " ", "1", "\n", "k", " ", "\"", "x", " ", "y", "\n", "b", " ", "2", "\n">>
  /\ parser.error.line = 2
  /\ parser.error.column = 7

(***************************************************************************)
(* Texts that look like numbers                                            *)
(***************************************************************************)
MaxNumLen == 4

NumBytes == {"-", "+", ".", "0", "1"}

\* every text of 1..MaxNumLen bytes over NumBytes, and the longer texts
\* 1.2.3 and 0.0.0.0
NumTexts ==
  UNION {[1..n -> NumBytes] : n \in 1..MaxNumLen}
    \cup {<<"1", ".", "2", ".", "3">>, <<"0", ".", "0", ".", "0", ".", "0">>}

ParseNumberLike ==
  \E prefix \in ValuePrefixes : \E text \in NumTexts :
    ParseFormOn([kind |-> "number", prefix |-> prefix, text |-> text], prefix \o text)

\* exactly one '.', with a digit somewhere before it and a digit somewhere
\* after it
FloatShape(text) ==
  /\ Cardinality({i \in 1..Len(text) : text[i] = "."}) = 1
  /\ \E i \in 1..Len(text) : \E j \in 1..Len(text) : \E k \in 1..Len(text) :
       i < j /\ j < k /\ isdigit(text[i]) /\ text[j] = "." /\ isdigit(text[k])

\* an optional '-' and then digits only, at least one
IntegerShape(text) ==
  /\ Len(text) > (IF text[1] = "-" THEN 1 ELSE 0)
  /\ \A i \in 1..Len(text) : isdigit(text[i]) \/ (i = 1 /\ text[i] = "-")

NeverNumbers ==
  {<<"1", ".">>, <<".", "5">>, <<"1", ".", "2", ".", "3">>, <<"0", ".", "0", ".", "0", ".", "0">>}

\* the node written as text is of the type its shape allows
NumberShaped(text, node) ==
  /\ node.type = "VIBE_TYPE_FLOAT" => FloatShape(text)
  /\ node.type = "VIBE_TYPE_INTEGER" => IntegerShape(text)
  /\ text \in NeverNumbers => (node.type = "VIBE_TYPE_STRING" /\ node.as_string = text)

MaxElems == 3

\* a scalar as written and the node it stands for
Elems ==
  { [text |-> <<"1">>, node |-> [type |-> "VIBE_TYPE_INTEGER", as_integer |-> 1]],
    [text |-> <<"-", "2", ".", "5">>, node |-> [type |-> "VIBE_TYPE_FLOAT", as_float |-> normal(-25, 1)]],
    [text |-> <<"t", "r", "u", "e">>, node |-> [type |-> "VIBE_TYPE_BOOLEAN", as_boolean |-> TRUE]],
    [text |-> <<"x">>, node |-> [type |-> "VIBE_TYPE_STRING", as_string |-> <<"x">>]],
    [text |-> <<"\"", "a", " ", "b", "\"">>, node |-> [type |-> "VIBE_TYPE_STRING", as_string |-> <<"a", " ", "b">>]] }

Separators == {<<" ">>, <<"\t">>, <<"\n">>, <<" ", "\n", "\t">>}

\* the elements, what separates them, and whether the separator is also
\* written after `[` and before `]`
ArrayForms ==
  [kind : {"array"}, elems : UNION {[1..n -> Elems] : n \in 0..MaxElems},
   sep : Separators, padded : BOOLEAN]

RECURSIVE ElemsText(_, _)
ElemsText(elems, sep) ==
  IF Len(elems) = 0 THEN <<>>
  ELSE IF Len(elems) = 1 THEN Head(elems).text
  ELSE Head(elems).text \o sep \o ElemsText(Tail(elems), sep)

ArrayText(f) ==
  <<"k", " ", "[">> \o (IF f.padded THEN f.sep ELSE <<>>) \o ElemsText(f.elems, f.sep)
    \o (IF f.padded THEN f.sep ELSE <<>>) \o <<"]", "\n">>

ParseArray == \E f \in ArrayForms : ParseFormOn(f, ArrayText(f))

\* the Array at arr holds the nodes of elems in their order
HoldsElems(h, arr, elems) ==
  /\ arr # NULL
  /\ Len(h[arr].as_array.values) = Len(elems)
  /\ \A i \in 1..Len(elems) : h[vibe_array_get(h, arr, i - 1)] = elems[i].node
  /\ vibe_array_get(h, arr, Len(elems)) = NULL

\* C16: the parsed Array holds exactly the scalars written between the
\* brackets, in source order and with duplicates kept, whatever white space
\* separates them; k [] yields an Array of count 0
C16_ArrayKeepsElements ==
  IsForm("array") =>
     /\ ret.result # NULL
     /\ ~parser.error.has_error
     /\ HoldsElems(heap, vibe_get_array(heap, root, <<"k">>), ret.form.elems)

\* 1 x 1 on three lines: three elements, the first and the last equal
C16_Witness ==
  /\ IsForm("array")
  /\ ret.arg = <<"k", " ", "[", "1", "\n", "x", "\n", "1", "]", "\n">>
  /\ Len(heap[vibe_get_array(heap, root, <<"k">>)].as_array.values) = 3
  /\ heap[vibe_array_get(heap, vibe_get_array(heap, root, <<"k">>), 0)]
       = heap[vibe_array_get(heap, vibe_get_array(heap, root, <<"k">>), 2)]

(***************************************************************************)
(* Objects left open at the end of input                                   *)
(***************************************************************************)
MaxSegs == 3

\* a piece of input, the number of `{` it opens (closes, if negative), and
\* whether it can only be written last
Segments ==
  { [text |-> <<"a", " ", "{">>, open |-> 1, last |-> FALSE],
    [text |-> <<"d", " ", "{", "\n">>, open |-> 1, last |-> FALSE],
    [text |-> <<"b", " ", "1", "\n">>, open |-> 0, last |-> FALSE],
    [text |-> <<"c", " ", "[", "1", " ", "x", "]", "\n">>, open |-> 0, last |-> FALSE],
    [text |-> <<"}", "\n">>, open |-> -1, last |-> FALSE],
    [text |-> <<"e", " ", "[", "2">>, open |-> 0, last |-> TRUE],
    [text |-> <<"f">>, open |-> 0, last |-> TRUE],
    [text |-> <<"g", " ", "y">>, open |-> 0, last |-> TRUE],
    [text |-> <<"#", "c">>, open |-> 0, last |-> TRUE] }

RECURSIVE OpenCount(_)
OpenCount(segs) == IF Len(segs) = 0 THEN 0 ELSE Head(segs).open + OpenCount(Tail(segs))

RECURSIVE SegsText(_)
SegsText(segs) == IF Len(segs) = 0 THEN <<>> ELSE Head(segs).text \o SegsText(Tail(segs))

\* no `}` without its `{`, and at least one `{` open at the end
UnclosedForms ==
  {[kind |-> "unclosed", segs |-> segs] :
     segs \in {ss \in UNION {[1..n -> Segments] : n \in 1..MaxSegs} :
                 /\ \A k \in 1..Len(ss) : OpenCount(SubSeq(ss, 1, k)) >= 0
                 /\ \A k \in 1..(Len(ss) - 1) : ~ss[k].last
                 /\ OpenCount(ss) >= 1}}

ParseUnclosed == \E f \in UnclosedForms : ParseFormOn(f, SegsText(f.segs))

Braces(n) == [i \in 1..n |-> "}"]

\* the parse r has given the tree at v
SameTree(h, v, r) == r.result # NULL /\ tree(r.heap, r.result) = tree(h, v)

\* C17: input that ends while `{` are still open parses with no error, to
\* the tree of the same input with the missing closing braces appended
C17_UnclosedAsClosed ==
  IsForm("unclosed") =>
     /\ ret.result # NULL
     /\ ~parser.error.has_error
     /\ SameTree(heap, root,
                 vibe_parse_string(vibe_parser_new, Empty,
                                   ret.arg \o Braces(OpenCount(ret.form.segs))))

\* two Objects are open at the end, the inner one holds an entry
C17_Witness ==
  /\ IsForm("unclosed")
  /\ ret.arg = <<"a", " ", "{", "d", " ", "{", "\n", "b", " ", "1", "\n">>
  /\ OpenCount(ret.form.segs) = 2
  /\ vibe_get_int(heap, root, <<"a", ".", "d", ".", "b">>) = 1

(***************************************************************************)
(* Words in key position                                                   *)
(***************************************************************************)
\* words of identifier shape: a letter or underscore, then letters, digits,
\* underscores, hyphens
Words ==
  { <<"n", "u", "l", "l">>, <<"i", "f">>, <<"f", "o", "r">>, <<"c", "l", "a", "s", "s">>,
    Str_true, Str_false, <<"T", "r", "u", "e">>, <<"t", "r", "u", "e", "s">>,
    <<"_", "x">>, <<"a", "-", "b">>, <<"a", "1">>, <<"x">> }

\* a scalar as written and the node it stands for
Scalars ==
  { [text |-> <<"1">>, node |-> [type |-> "VIBE_TYPE_INTEGER", as_integer |-> 1]],
    [text |-> <<"x">>, node |-> [type |-> "VIBE_TYPE_STRING", as_string |-> <<"x">>]],
    [text |-> <<"\"", "n", "o", "\"">>, node |-> [type |-> "VIBE_TYPE_STRING", as_string |-> <<"n", "o">>]],
    [text |-> Str_false, node |-> [type |-> "VIBE_TYPE_BOOLEAN", as_boolean |-> FALSE]] }

\* the object level: the root, or a keyed Object
Levels == {<<>>, <<"o", " ", "{", "\n">>}

WordForms == [kind : {"word"}, level : Levels, word : Words, scalar : Scalars]

WordText(f) == f.level \o f.word \o <<" ">> \o f.scalar.text \o <<"\n">>

ParseWord == \E f \in WordForms : ParseFormOn(f, WordText(f))

\* the Object the word was written in, in a tree that was returned
LevelObject(level) ==
  IF level = <<>> THEN object_of(heap, root) ELSE vibe_get_object(heap, root, <<"o">>)

\* the Object at obj has the node under the key
HoldsEntry(h, obj, key, node) ==
  /\ obj # NULL
  /\ vibe_object_get(h, obj, key) # NULL
  /\ h[vibe_object_get(h, obj, key)] = node

\* C18: there are no reserved words: every word of identifier shape that
\* is followed by a scalar at object level yields an entry under that word
C18_NoReservedWords ==
  IsForm("word") =>
     /\ ret.result # NULL
     /\ HoldsEntry(heap, LevelObject(ret.form.level), ret.form.word, ret.form.scalar.node)

(***************************************************************************)
(* Empty input and input that is one comment line                          *)
(***************************************************************************)
MaxComment == 2

CommentBytes == {"c", " ", "#", "?", "\"", "\\", "{", "]"}

CommentIndents == {<<>>, <<" ">>, <<"\t", " ">>}

\* the empty input, and '#' after optional white space, up to MaxComment
\* bytes of comment, with and without the newline
CommentTexts ==
  {<<>>} \cup
  {indent \o <<"#">> \o body \o nl :
     indent \in CommentIndents,
     body \in UNION {[1..n -> CommentBytes] : n \in 0..MaxComment},
     nl \in {<<>>, <<"\n">>}}

ParseComment ==
  \E text \in CommentTexts : ParseFormOn([kind |-> "comment", text |-> text], text)

\* the heap holds one Object without entries at v and nothing else
OnlyEmptyObject(h, v) ==
  /\ v # NULL
  /\ DOMAIN h = {v}
  /\ h[v] = [type |-> "VIBE_TYPE_OBJECT", as_object |-> [entries |-> <<>>]]

\* C19: empty input, and input that is only a '#' comment line with or
\* without its newline, parse to a root Object with zero entries and leave
\* has_error = false
C19_EmptyAndCommentOnly ==
  IsForm("comment") =>
     /\ ret.result # NULL
     /\ OnlyEmptyObject(heap, root)
     /\ ~parser.error.has_error

\* a comment of bytes that are errors or structure outside a comment
C19_Witness ==
  /\ IsForm("comment")
  /\ ret.arg = <<"#", "?", "{", "\n">>
  /\ OnlyEmptyObject(heap, root)

\* a client that parses one text with a quoted string and frees the tree
NextText == ParseQuoted \/ ParseOpen \/ ValueFree

SpecText == Init /\ [][NextText]_vars

\* a client that parses one text that looks like a number
NextNumber == ParseNumberLike \/ ValueFree

SpecNumber == Init /\ [][NextNumber]_vars

\* a client that parses one array of scalars
NextArray == ParseArray \/ ValueFree

SpecArray == Init /\ [][NextArray]_vars

\* a client that parses one text with Objects left open
NextUnclosed == ParseUnclosed \/ ValueFree

SpecUnclosed == Init /\ [][NextUnclosed]_vars

\* a client that parses one word with a scalar after it
NextWord == ParseWord \/ ValueFree

SpecWord == Init /\ [][NextWord]_vars

\* a client that parses the empty text or one comment line
NextComment == ParseComment \/ ValueFree

SpecComment == Init /\ [][NextComment]_vars

(***************************************************************************)
(* A parse taken one loop iteration at a time                              *)
(***************************************************************************)
StepCorpus ==
  { <<"a", " ", "\"", "\\", " ", "?">>,
    <<"a", " ", "?", " ", "b">>,
    <<"a", " ", "\"", "\\", "q", "\"", " ", "b">>,
    <<"a", " ", "1", "\n", "b", "[", "1", " ", "\"", "x">>,
    <<"a", "{", "b", " ", "x", "\n", "}", "\n", "c", "[", "1", " ", "y", " ", "{", "d", " ", "2", "}", "]", "\n">>,
    <<"\"", "x", "\n", "a", " ", "1">>,
    <<"a", " ", "1", "\n", "a", "{", "b", " ", "2", "}", "\n", "a", " ", "t", "r", "u", "e">>,
    <<"#", "c", "\n", "x", " ", "\"", "s", "\"", " ", "y", "\n">>,
    Nest(MAX_NESTING_DEPTH) }

\* vibe_parse_string(parser, input) has reached its loop in the state ps
Entered(input, ps) ==
  /\ run' = ps
  /\ parser' = ps.p
  /\ heap' = ps.heap
  /\ ret' = [op |-> "parse_enter", arg |-> input]
  /\ UNCHANGED <<freed, root, fresh, ncalls, nsets>>

StepEnter ==
  /\ run = Idle
  /\ root = NULL
  /\ ncalls < MaxCalls
  /\ \E input \in StepCorpus : Entered(input, parse_start(parser, heap, input))

\* nt = [p, token] has been read at the top of the loop and the iteration
\* has left the loop in the state ps
Iterated(nt, ps) ==
  /\ run' = ps
  /\ parser' = ps.p
  /\ heap' = ps.heap
  /\ ret' = [op |-> "next_token", token |-> nt.token]
  /\ UNCHANGED <<freed, root, fresh, ncalls, nsets>>

\* the iteration that follows the token nt
IterationOn(nt) == Iterated(nt, parse_next(run, nt))

StepToken ==
  /\ run # Idle
  /\ ~run.returned
  /\ IterationOn(next_token(run.p))

StepReturn ==
  /\ run # Idle
  /\ run.returned
  /\ run' = Idle
  /\ root' = run.result
  /\ ret' = [op |-> "vibe_parse_string", arg |-> parser.input, result |-> run.result]
  /\ ncalls' = ncalls + 1
  /\ UNCHANGED <<freed, parser, heap, fresh, nsets>>

NextStep == StepEnter \/ StepToken \/ StepReturn \/ ValueFree

SpecStep == Init /\ [][NextStep]_vars

\* C13: within one parse, once has_error is set the error record does not
\* change: later attempts to set an error are dropped
C13_ErrorLatches ==
  [][(parser.error.has_error /\ ret'.op # "parse_enter") => parser'.error = parser.error]_vars

\* the token read after a failed peeked token has failed at another column
\* and the record still holds the first error
C13_Witness ==
  /\ ret.op = "next_token"
  /\ ret.token.type = "TOKEN_ERROR"
  /\ parser.input = <<"a", " ", "\"", "\\", " ", "?">>
  /\ parser.error.has_error
  /\ parser.error.message = "Invalid escape sequence '\\ '"
  /\ parser.error.column # ret.token.column

\* a tree without the order of the entries of its Objects
RECURSIVE Unordered(_)
Unordered(t) ==
  CASE t.type = "VIBE_TYPE_OBJECT" ->
         [type |-> t.type,
          entries |-> {[key |-> t.entries[i].key, value |-> Unordered(t.entries[i].value)] :
                         i \in 1..Len(t.entries)}]
    [] t.type = "VIBE_TYPE_ARRAY" ->
         [type |-> t.type, values |-> [i \in 1..Len(t.values) |-> Unordered(t.values[i])]]
    [] OTHER -> t

\* the parse r of the dump of the tree at v has given an equal tree
RoundTrips(h, v, r) ==
  /\ r.result # NULL
  /\ Unordered(tree(r.heap, r.result)) = Unordered(tree(h, v))

\* C14: for every tree produced by a successful parse, parsing the text
\* vibe_value_print writes for it yields a structurally equal tree, ignoring
\* key order
C14_DumpRoundTrip ==
  (IsParseString /\ ret.result # NULL /\ root = ret.result) =>
     RoundTrips(heap, root,
                vibe_parse_string(vibe_parser_new, Empty, vibe_value_print(heap, root, 0)))

\* the places of the heap h that hold a pointer to a value: the slots of
\* its Arrays and the entries of its Objects
Slots(h) ==
  UNION {{<<c, i>> : i \in 1..(CASE h[c].type = "VIBE_TYPE_ARRAY" -> Len(h[c].as_array.values)
                                  [] h[c].type = "VIBE_TYPE_OBJECT" -> Len(h[c].as_object.entries)
                                  [] OTHER -> 0)} : c \in DOMAIN h}

\* every value of the heap h but r is pointed to from one place, r from
\* none, and all are in the tree at r: freeing r frees each value once and
\* leaves nothing
OwnedOnce(h, r) ==
  /\ r \in DOMAIN h
  /\ UNION {children(h, c) : c \in DOMAIN h} = DOMAIN h \ {r}
  /\ Cardinality(Slots(h)) = Cardinality(DOMAIN h) - 1
  /\ subtree(h, r) = DOMAIN h

\* C20: no allocation made during a parse is leaked or freed twice: when
\* an iteration of the loop ends, and so on every return, each token text
\* and each copy of a key has been freed exactly once; a failed parse
\* leaves no Value; a returned tree owns every Value once, and
\* vibe_value_free(root) leaves none
C20_NoLeakNoDoubleFree ==
  /\ run # Idle =>
       /\ run.tokens = 0
       /\ run.keys = 0
       /\ ~run.returned => (run.current_key = NULL_STR /\ OwnedOnce(heap, run.root))
       /\ (run.returned /\ run.result = NULL) => heap = Empty
       /\ (run.returned /\ run.result # NULL) => OwnedOnce(heap, run.result)
  /\ (ret.op = "vibe_parse_string" /\ ret.result = NULL) => heap = Empty
  /\ (ret.op = "vibe_parse_string" /\ ret.result # NULL) => OwnedOnce(heap, root)
  /\ ret.op = "vibe_value_free" => heap = Empty

\* the parse has failed on the depth of nesting after the key of the last
\* Object was copied and `{` was peeked
C20_Witness ==
  /\ run # Idle
  /\ run.returned
  /\ run.result = NULL
  /\ parser.error.message = "Maximum nesting depth exceeded"
  /\ run.current_key # NULL_STR
  /\ run.keys = 0

(***************************************************************************)
(* The lexer alone: a handle is reset on an input as vibe_parse_string     *)
(* opens, and next_token is called until it returns TOKEN_EOF or           *)
(* TOKEN_ERROR.  ret holds the token returned and the handle it was read   *)
(* from.                                                                   *)
(***************************************************************************)
LexBeginOn(form, input) ==
  /\ ret.op = "vibe_parser_new"
  /\ parser' = parse_reset(parser, input)
  /\ ret' = [op |-> "parse_reset", form |-> form]
  /\ UNCHANGED <<freed, heap, root, fresh, ncalls, nsets, run>>

Lexed(nt) ==
  /\ parser' = nt.p
  /\ ret' = [op |-> "next_token", token |-> nt.token, from |-> parser,
             form |-> ret.form]
  /\ UNCHANGED <<freed, heap, root, fresh, ncalls, nsets, run>>

LexToken ==
  /\ ret.op \in {"parse_reset", "next_token"}
  /\ ret.op = "next_token" => ret.token.type \notin {"TOKEN_EOF", "TOKEN_ERROR"}
  /\ Lexed(next_token(parser))

IsLex(kind) == ret.op = "next_token" /\ "form" \in DOMAIN ret /\ ret.form.kind = kind

\* ---- every input of at most MaxLexLen bytes over LexBytes
MaxLexLen == 3

LexBytes == {"a", "-", "7", " ", "\n", "#", "\"", "\\", "{"}

LexTexts == UNION {[1..n -> LexBytes] : n \in 0..MaxLexLen}

LexBegin == \E text \in LexTexts : LexBeginOn([kind |-> "bytes", text |-> text], text)

NextLex == LexBegin \/ LexToken

SpecLex == Init /\ [][NextLex]_vars

\* the handle whose buffer holds one more byte after its length
Padded(p, byte) == [p EXCEPT !.input = @ \o <<byte>>]

\* bytes that would each be taken by one of the loops of the lexer
PadBytes == {"a", "7", " ", "\n", "\"", "#"}

\* the token and the handle do not depend on what lies at index length
ReadsBelowLength ==
  \A byte \in PadBytes :
     next_token(Padded(ret.from, byte)) = [p |-> Padded(parser, byte), token |-> ret.token]

SameResult(r1, r2) ==
  /\ (r1.result = NULL) = (r2.result = NULL)
  /\ r1.result # NULL => tree(r1.heap, r1.result) = tree(r2.heap, r2.result)

\* the input parses as it does with a newline appended
NewlineOptional(input) ==
  SameResult(vibe_parse_string(vibe_parser_new, Empty, input),
             vibe_parse_string(vibe_parser_new, Empty, input \o <<"\n">>))

C21_CursorInBounds ==
  /\ 0 <= parser.pos
  /\ parser.pos <= parser.length
  /\ IsLex("bytes") => ReadsBelowLength
  /\ (ret.op = "parse_reset" /\ ret.form.kind = "bytes"
        /\ parser.input # <<>> /\ parser.input[parser.length] # "\n")
       => NewlineOptional(parser.input)

C21_CursorAdvances == IsLex("bytes")' => parser'.pos >= parser.pos

\* C21: at every step of the lexer 0 <= pos <= length and pos never
\* decreases, no byte at an index >= length is examined (the token and the
\* handle are the same whatever byte lies there), and an input whose last
\* line has no newline parses to the tree of the input with one appended
C21_NoReadPastEnd == []C21_CursorInBounds /\ [][C21_CursorAdvances]_vars

\* the run `-` was collected up to the end of an input with no last newline
C21_Witness ==
  /\ IsLex("bytes")
  /\ parser.input = <<"a", " ", "-">>
  /\ ret.token.type = "TOKEN_STRING"
  /\ ret.token.value = <<"-">>
  /\ ret.from.pos < parser.pos
  /\ parser.pos = parser.length

(***************************************************************************)
(* A container opened at every depth of nesting                            *)
(***************************************************************************)
\* what is written inside the innermost Object: a keyed Object, a keyed
\* Array, and an Object without a key inside a keyed Array; opens is the
\* number of frames the text asks for
Openers ==
  { [text |-> <<"k", "{">>, opens |-> 1],
    [text |-> <<"k", "[">>, opens |-> 1],
    [text |-> <<"k", "[", " ", "{">>, opens |-> 2],
    [text |-> <<"k", "[", "{", "a", " ", "1", "}">>, opens |-> 2] }

DepthForms ==
  {[kind |-> "depth", n |-> n, opener |-> o] : n \in 0..MAX_NESTING_DEPTH, o \in Openers}

DepthText(f) == Nest(f.n) \o f.opener.text

ParseDepth == \E f \in DepthForms : ParseFormOn(f, DepthText(f))

\* a client that parses one text of nested containers
NextDepth == ParseDepth \/ ValueFree

SpecDepth == Init /\ [][NextDepth]_vars

\* the text asks for a frame past the last one of the stack
PastLastFrame(f) == f.n + f.opener.opens >= MAX_NESTING_DEPTH

\* C22 as claimed: every container opened past the maximum depth, with a
\* key or inside an Array without one, sets "Maximum nesting depth
\* exceeded", frees the tree in progress and makes the parse return no tree
C22_DepthErrorOnEveryOpen ==
  (IsForm("depth") /\ PastLastFrame(ret.form)) =>
     /\ ret.result = NULL
     /\ parser.error.has_error
     /\ parser.error.message = "Maximum nesting depth exceeded"
     /\ heap = Empty

(***************************************************************************)
(* Documents of balanced braces, against a reading of the grammar that     *)
(* keeps a stack of the Objects that are open                              *)
(***************************************************************************)
MaxItems == 4

RefInteger(i) == [type |-> "VIBE_TYPE_INTEGER", as_integer |-> i]

RefString(s) == [type |-> "VIBE_TYPE_STRING", as_string |-> s]

RefObject(entries) == [type |-> "VIBE_TYPE_OBJECT", entries |-> entries]

RefArray(values) == [type |-> "VIBE_TYPE_ARRAY", values |-> values]

\* a line of a document: a key with its value, a key that opens an Object,
\* or a closing brace
Items ==
  { [text |-> <<"a", " ", "1", "\n">>, op |-> "set", key |-> <<"a">>, value |-> RefInteger(1)],
    [text |-> <<"b", " ", "x", "\n">>, op |-> "set", key |-> <<"b">>, value |-> RefString(<<"x">>)],
    [text |-> <<"a", " ", "\"", "y", "\"", "\n">>, op |-> "set", key |-> <<"a">>,
     value |-> RefString(<<"y">>)],
    [text |-> <<"c", " ", "[", "1", " ", "{", "d", " ", "2", "}", " ", "x", "]", "\n">>,
     op |-> "set", key |-> <<"c">>,
     value |-> RefArray(<<RefInteger(1),
                          RefObject(<<[key |-> <<"d">>, value |-> RefInteger(2)]>>),
                          RefString(<<"x">>)>>)],
    [text |-> <<"o", " ", "{", "\n">>, op |-> "open", key |-> <<"o">>, value |-> RefObject(<<>>)],
    [text |-> <<"}", "\n">>, op |-> "close", key |-> NULL_STR, value |-> RefObject(<<>>)] }

\* the entries with the value under the key: in the place of the entry that
\* has the key, or last
RefSet(entries, key, value) ==
  IF \E i \in 1..Len(entries) : entries[i].key = key
    THEN [i \in 1..Len(entries) |->
            IF entries[i].key = key THEN [key |-> key, value |-> value] ELSE entries[i]]
    ELSE Append(entries, [key |-> key, value |-> value])

RefFrame(key) == [key |-> key, entries |-> <<>>]

\* the frames without the last, which is set in the one before it
RefClose(open, top) ==
  [open EXCEPT ![Len(open)].entries = RefSet(@, top.key, RefObject(top.entries))]

\* the Objects open after the item, outermost first
RefItem(open, item) ==
  IF item.op = "set"
    THEN [open EXCEPT ![Len(open)].entries = RefSet(@, item.key, item.value)]
  ELSE IF item.op = "open" THEN Append(open, RefFrame(item.key))
  ELSE IF Len(open) = 1 THEN open
  ELSE RefClose(SubSeq(open, 1, Len(open) - 1), open[Len(open)])

RECURSIVE RefRead(_, _)
RefRead(open, items) ==
  IF Len(items) = 0 THEN open ELSE RefRead(RefItem(open, Head(items)), Tail(items))

RefOpen(items) == RefRead(<<RefFrame(NULL_STR)>>, items)

RECURSIVE ItemsText(_)
ItemsText(items) == IF Len(items) = 0 THEN <<>> ELSE Head(items).text \o ItemsText(Tail(items))

\* every `{` has its `}`; a `}` written at the root is left in
BalancedForms ==
  {[kind |-> "balanced", items |-> items] :
     items \in {it \in UNION {[1..n -> Items] : n \in 0..MaxItems} : Len(RefOpen(it)) = 1}}

ParseBalanced == \E f \in BalancedForms : ParseFormOn(f, ItemsText(f.items))

\* a client that parses one balanced document
NextBalanced == ParseBalanced \/ ValueFree

SpecBalanced == Init /\ [][NextBalanced]_vars

\* stack.depth when the loop returns
DepthAtEnd(input) ==
  parse_loop(parse_start(vibe_parser_new, Empty, input), Len(input) + 2).depth

\* C23: in a document of balanced braces where every key has its value on
\* its line, every pair is set in the innermost Object open around it, a
\* `}` gives the insertion back to the enclosing Object, a `}` at the root
\* changes nothing, and the frame depth is 0 at the end of the input
C23_BalancedNesting ==
  IsForm("balanced") =>
     /\ ret.result # NULL
     /\ ~parser.error.has_error
     /\ tree(heap, root) = RefObject(RefOpen(ret.form.items)[1].entries)
     /\ DepthAtEnd(ret.arg) = 0

\* an Object with a pair, its closing brace, and a closing brace at the root
C23_Witness ==
  /\ IsForm("balanced")
  /\ ret.arg = <<"o", " ", "{", "\n", "a", " ", "1", "\n", "}", "\n", "}", "\n">>
  /\ DepthAtEnd(ret.arg) = 0
  /\ tree(heap, root) =
       RefObject(<<[key |-> <<"o">>,
                    value |-> RefObject(<<[key |-> <<"a">>, value |-> RefInteger(1)]>>)]>>)

(***************************************************************************)
(* The text of one unquoted run and its type                               *)
(***************************************************************************)
MaxRunPieces == 3

RunPieces ==
  {Str_true, Str_false, <<"-">>, <<".">>, <<"7">>, <<"0">>, <<"a">>, <<"_">>, <<"/">>, <<"E">>}

RunTexts == {Flatten(ps) : ps \in UNION {[1..n -> RunPieces] : n \in 1..MaxRunPieces}}

LexRun == \E text \in RunTexts : LexBeginOn([kind |-> "run", text |-> text], text)

\* a lexer that is given one run
NextRun == LexRun \/ LexToken

SpecRun == Init /\ [][NextRun]_vars

\* the text without its leading '-'
Unsigned(text) == IF Len(text) > 0 /\ text[1] = "-" THEN Tail(text) ELSE text

\* digits, then at most one '.' that digits follow
RefDigits(body) ==
  /\ Len(body) >= 1
  /\ body[1] \in {"0", "1", "2", "3", "4", "5", "6", "7", "8", "9"}
  /\ body[Len(body)] # "."
  /\ \A i \in 1..Len(body) : body[i] \in {"0", "1", "2", "3", "4", "5", "6", "7", "8", "9", "."}
  /\ Cardinality({i \in 1..Len(body) : body[i] = "."}) <= 1

RefIdentifier(text) ==
  /\ isalpha(text[1]) \/ text[1] = "_"
  /\ \A i \in 1..Len(text) : isalpha(text[i]) \/ isdigit(text[i]) \/ text[i] \in {"_", "-"}

RefType(text) ==
  IF text \in {<<"t", "r", "u", "e">>, <<"f", "a", "l", "s", "e">>} THEN "TOKEN_BOOLEAN"
  ELSE IF RefDigits(Unsigned(text)) THEN "TOKEN_NUMBER"
  ELSE IF RefIdentifier(text) THEN "TOKEN_IDENTIFIER"
  ELSE "TOKEN_STRING"

\* C24: the text of an unquoted run is classified by the cascade: exactly
\* true or false is a Boolean; else an optional '-', digits, and at most
\* one '.' that digits follow is a Number; else a letter or underscore
\* followed by letters, digits, underscores and hyphens is an Identifier;
\* else it is a String
C24_RunCascade ==
  (IsLex("run") /\ ret.from.pos = 0) =>
     /\ ret.token.value = ret.form.text
     /\ ret.token.type = RefType(ret.form.text)
     /\ parser.pos = parser.length

\* a/7 begins as an identifier does and is a String
C24_Witness ==
  /\ IsLex("run")
  /\ ret.from.pos = 0
  /\ ret.form.text = <<"a", "/", "7">>
  /\ ret.token.type = "TOKEN_STRING"

(***************************************************************************)
(* The line and the column recorded in a token                             *)
(***************************************************************************)
MaxPosLen == 4

PosBytes == {"a", " ", "\t", "\r", "\n", "#"}

PosTexts == UNION {[1..n -> PosBytes] : n \in 0..MaxPosLen}

LexPosition == \E text \in PosTexts : LexBeginOn([kind |-> "position", text |-> text], text)

\* a lexer that is given words, white space, comments and newlines
NextPosition == LexPosition \/ LexToken

SpecPosition == Init /\ [][NextPosition]_vars

\* the index of the first byte of the token that was read up to pos
FirstByte(token, pos) ==
  IF token.type = "TOKEN_NEWLINE" THEN pos - 1 ELSE pos - Len(token.value)

\* the 1-indexed line of the byte at the index i
LineOf(input, i) == 1 + Cardinality({j \in 1..i : input[j] = "\n"})

\* the 1-indexed column of the byte at the index i: its distance from the
\* last newline before it, or from the start of the input
ColumnOf(input, i) ==
  Cardinality({j \in 1..i : \A k \in j..i : input[k] # "\n"}) + 1

\* C25 as claimed: the line and the column recorded in every token are
\* those of its first byte, for a Newline token after a '#' comment and for
\* tokens after tabs and carriage returns too
C25_TokenPositions ==
  (IsLex("position") /\ ret.token.type # "TOKEN_EOF") =>
     /\ ret.token.line = LineOf(parser.input, FirstByte(ret.token, parser.pos))
     /\ ret.token.column = ColumnOf(parser.input, FirstByte(ret.token, parser.pos))

(***************************************************************************)
(* The byte a token begins with                                            *)
(***************************************************************************)
\* the printable bytes but the six that are given as never starting a run
Starters == {Printable[i] : i \in 1..Len(Printable)} \ {"{", "}", "[", "]", "#", "\""}

\* the token is written first, or as the value of a key, and read from the
\* position at
StarterLeads == {[text |-> <<>>, at |-> 0], [text |-> <<"k", " ">>, at |-> 1]}

StarterTails == {<<>>, <<"1">>, <<"x">>}

StarterForms ==
  [kind : {"starter"}, lead : StarterLeads, byte : Starters, tail : StarterTails]

StarterText(f) == f.lead.text \o <<f.byte>> \o f.tail

LexStarter == \E f \in StarterForms : LexBeginOn(f, StarterText(f))

\* a lexer that is given a token beginning with each printable byte
NextStarter == LexStarter \/ LexToken

SpecStarter == Init /\ [][NextStarter]_vars

\* C26 as claimed: a token that begins with any printable byte other than
\* { } [ ] # and the double quote is read as an unquoted run and given a
\* type by the cascade; none is an error
C26_AnyPrintableStarts ==
  (IsLex("starter") /\ ret.from.pos = ret.form.lead.at) =>
     /\ ret.token.type \in {"TOKEN_BOOLEAN", "TOKEN_NUMBER", "TOKEN_IDENTIFIER", "TOKEN_STRING"}
     /\ ret.token.value = <<ret.form.byte>> \o ret.form.tail
     /\ ~parser.error.has_error

(***************************************************************************)
(* The bytes of an unquoted run                                            *)
(***************************************************************************)
\* the index of the first byte of the token read last
TokenStart == skip_whitespace(skip_comment(skip_whitespace(ret.from))).pos

\* the token read last is an unquoted run: it has a text and does not
\* begin with a double quote
FromRun ==
  /\ ret.token.type \in {"TOKEN_BOOLEAN", "TOKEN_NUMBER", "TOKEN_IDENTIFIER", "TOKEN_STRING"}
  /\ At(parser.input, TokenStart) # "\""

PrintableBytes == {Printable[i] : i \in 1..Len(Printable)}

\* C27 as claimed: the text of a token read from an unquoted run has only
\* printable bytes other than { } [ ] # and the double quote: a double
\* quote met inside a run ends it
C27_QuoteEndsRun ==
  (IsLex("bytes") /\ FromRun) =>
     \A i \in 1..Len(ret.token.value) :
        ret.token.value[i] \in PrintableBytes \ {"{", "}", "[", "]", "#", "\""}

\* C27, amended: the text of a token read from an unquoted run has only
\* printable bytes other than { } [ ] #, and the run goes on to the end of
\* the input or to a byte that is one of these or not printable: a double
\* quote met inside a run is part of its text
C27_RunBytes ==
  (IsLex("bytes") /\ FromRun) =>
     /\ \A i \in 1..Len(ret.token.value) :
          ret.token.value[i] \in PrintableBytes \ {"{", "}", "[", "]", "#"}
     /\ ret.token.value = SubSeq(parser.input, TokenStart + 1, parser.pos)
     /\ parser.pos < parser.length =>
          At(parser.input, parser.pos) \notin PrintableBytes \ {"{", "}", "[", "]", "#"}

\* the run a"7 was read as one token
C27_Witness ==
  /\ IsLex("bytes")
  /\ FromRun
  /\ parser.input = <<"a", "\"", "7">>
  /\ ret.token.value = <<"a", "\"", "7">>
  /\ ret.token.type = "TOKEN_STRING"

(***************************************************************************)
(* A value that begins with '-'                                            *)
(***************************************************************************)
MaxDashLen == 3

DashBytes == {"-", "7", "0", ".", "a", " ", "\n"}

\* what follows the '-' of the value
DashTails == UNION {[1..n -> DashBytes] : n \in 0..MaxDashLen}

DashText(tail) == <<"k", " ", "-">> \o tail

ParseDash ==
  \E tail \in DashTails : ParseFormOn([kind |-> "dash", tail |-> tail], DashText(tail))

\* a client that parses one key whose value begins with '-'
NextDash == ParseDash \/ ValueFree

SpecDash == Init /\ [][NextDash]_vars

\* the bytes of the tail before its first space or newline
RECURSIVE WordOf(_)
WordOf(tail) ==
  IF Len(tail) = 0 \/ Head(tail) \in {" ", "\n"} THEN <<>>
  ELSE <<Head(tail)>> \o WordOf(Tail(tail))

RefDigit(c) == CHOOSE d \in 0..9 : <<"0", "1", "2", "3", "4", "5", "6", "7", "8", "9">>[d + 1] = c

\* the number a text of digits stands for
RECURSIVE RefDecimal(_)
RefDecimal(digits) ==
  IF Len(digits) = 0 THEN 0
  ELSE 10 * RefDecimal(SubSeq(digits, 1, Len(digits) - 1)) + RefDigit(digits[Len(digits)])

\* the node that '-' and the word after it stand for
DashNodeIs(node, word) ==
  IF ~RefDigits(word) THEN node = RefString(<<"-">> \o word)
  ELSE IF \E i \in 1..Len(word) : word[i] = "." THEN node.type = "VIBE_TYPE_FLOAT"
  ELSE node = RefInteger(0 - RefDecimal(word))

\* C28: k -7 stores the Integer -7 under k; k - 7 stores the String "-"
\* under k and skips the 7, adding no entry and setting no error; a '-'
\* that no digit follows at once begins a bare string
C28_DashValue ==
  IsForm("dash") =>
     /\ ret.result # NULL
     /\ ~parser.error.has_error
     /\ vibe_get(heap, root, <<"k">>) # NULL
     /\ DashNodeIs(heap[vibe_get(heap, root, <<"k">>)], WordOf(ret.form.tail))
     /\ (ret.form.tail = <<>> \/ ~isdigit(ret.form.tail[1])) =>
          heap[vibe_get(heap, root, <<"k">>)].type = "VIBE_TYPE_STRING"
     /\ (\A i \in 1..Len(ret.form.tail) : ret.form.tail[i] # "a") =>
          Len(heap[root].as_object.entries) = 1
     /\ ret.form.tail = <<"7">> => heap[vibe_get(heap, root, <<"k">>)] = RefInteger(0 - 7)

\* k - 7: the String "-" is the only entry
C28_Witness ==
  /\ IsForm("dash")
  /\ ret.form.tail = <<" ", "7">>
  /\ ret.result # NULL
  /\ tree(heap, root) = RefObject(<<[key |-> <<"k">>, value |-> RefString(<<"-">>)]>>)

(***************************************************************************)
(* A key that no value follows, one loop iteration at a time               *)
(***************************************************************************)
\* what is written before the key: nothing, entries of the root, entries
\* of an Object that is open
KeyLeads ==
  { <<>>,
    <<"a", " ", "1", "\n">>,
    <<"a", " ", "1", "\n", "b", " ", "x", "\n">>,
    <<"o", " ", "{", "\n", "a", " ", "1", "\n">>,
    <<"o", "{", "a", " ", "1", "\n", "b", "[", "2", "]", "\n">> }

\* the key: one that the Object holds, one that it does not
KeyNames == {<<"a">>, <<"z">>}

\* what is written after the key
KeyFollowers ==
  { <<>>, <<"\n">>, <<"}">>, <<"]">>, <<" ", "\n">>, <<" ", "}">>, <<"\t", "]">>,
    <<" ", "#", "c", "\n">>, <<" ", "7", "\n">>, <<"{">>, <<"[">> }

KeyRests == {<<>>, <<"c", " ", "3", "\n">>}

KeyCorpus ==
  {lead \o key \o follower \o rest :
     lead \in KeyLeads, key \in KeyNames, follower \in KeyFollowers, rest \in KeyRests}

StepEnterKey ==
  /\ run = Idle
  /\ root = NULL
  /\ ncalls = 0
  /\ \E input \in KeyCorpus : Entered(input, parse_start(parser, heap, input))

NextKey == StepEnterKey \/ StepToken \/ StepReturn \/ ValueFree

SpecKey == Init /\ [][NextKey]_vars

\* the loop is at a Root or Object frame, the token it reads next is an
\* identifier, and the token after it is a Newline, the end of the input,
\* a closing brace or a closing bracket
KeyWithoutValue(nt) ==
  /\ run.stack[run.depth].state \in {"STATE_ROOT", "STATE_OBJECT"}
  /\ nt.token.type = "TOKEN_IDENTIFIER"
  /\ next_token(nt.p).token.type \in
       {"TOKEN_NEWLINE", "TOKEN_EOF", "TOKEN_RIGHT_BRACE", "TOKEN_RIGHT_BRACKET"}

C29_KeyDropped ==
  (run # Idle /\ ~run.returned /\ KeyWithoutValue(next_token(run.p)) /\ run' # Idle) =>
     /\ heap' = heap
     /\ ~parser'.error.has_error
     /\ ~run'.returned
     /\ run'.depth = run.depth
     /\ run'.current_key = NULL_STR

\* C29: when the token after a key in a Root or Object frame is a Newline,
\* the end of the input, a closing brace or a closing bracket, nothing is
\* inserted for the key: the entries of the Object, their number and their
\* values are unchanged, and no error is set
C29_KeyWithoutValue == [][C29_KeyDropped]_vars

\* the key a, which the root holds, was read before a closing brace, and
\* the root still holds a as it was
C29_Witness ==
  /\ run # Idle
  /\ ret.op = "next_token"
  /\ ret.token.type = "TOKEN_IDENTIFIER"
  /\ parser.input = <<"a", " ", "1", "\n", "a", "}">>
  /\ parser.pos = parser.length
  /\ tree(heap, run.root) = RefObject(<<[key |-> <<"a">>, value |-> RefInteger(1)]>>)

(***************************************************************************)
(* A comment at the end of a line                                          *)
(***************************************************************************)
MaxNote == 2

NoteBytes == {"n", " ", "#", "\"", "{"}

\* a comment: '#' and what is written after it on the line
Notes == {<<"#">> \o note : note \in UNION {[1..n -> NoteBytes] : n \in 0..MaxNote}}

\* what is written before the comment, and the node it stores under p
NoteBodies ==
  { [text |-> <<>>, stores |-> FALSE, node |-> RefString(<<>>)],
    [text |-> <<"p">>, stores |-> FALSE, node |-> RefString(<<>>)],
    [text |-> <<"o", " ", "{">>, stores |-> FALSE, node |-> RefString(<<>>)],
    [text |-> <<"p", " ", "8">>, stores |-> TRUE, node |-> RefInteger(8)],
    [text |-> <<"p", " ", "x">>, stores |-> TRUE, node |-> RefString(<<"x">>)],
    [text |-> <<"p", " ", "\"", "a", "#", "b", "\"">>, stores |-> TRUE,
     node |-> RefString(<<"a", "#", "b">>)] }

NoteGaps == {<<>>, <<" ">>, <<" ", " ">>}

NoteEnds == {<<>>, <<"\n">>, <<"\n", "q", " ", "1", "\n">>}

NoteForms == [kind : {"note"}, body : NoteBodies, gap : NoteGaps, note : Notes, end : NoteEnds]

NoteText(f) == f.body.text \o f.gap \o f.note \o f.end

\* the same line without the comment
BareText(f) == f.body.text \o f.gap \o f.end

ParseNote == \E f \in NoteForms : ParseFormOn(f, NoteText(f))

\* a client that parses a line that ends with a comment
NextNote == ParseNote \/ ValueFree

SpecNote == Init /\ [][NextNote]_vars

\* the types and the texts of the tokens read from p on, up to the first
\* TOKEN_EOF or TOKEN_ERROR, n at most
RECURSIVE TokensFrom(_, _)
TokensAfter(nt, n) ==
  IF nt.token.type \in {"TOKEN_EOF", "TOKEN_ERROR"}
    THEN <<[type |-> nt.token.type, value |-> nt.token.value]>>
    ELSE <<[type |-> nt.token.type, value |-> nt.token.value]>> \o TokensFrom(nt.p, n - 1)

TokensFrom(p, n) == IF n <= 0 THEN <<>> ELSE TokensAfter(next_token(p), n)

TokensOf(input) == TokensFrom(parse_reset(vibe_parser_new, input), Len(input) + 1)

\* C30: a '#' outside a quoted string ends the unquoted run before it, and
\* no byte from the '#' to the next newline is part of a token: the line
\* gives the tokens and the tree of the line without the comment, the
\* newline after the comment is read as a Newline token, and a '#' inside
\* a quoted string is a byte of the string
C30_CommentTruncates ==
  IsForm("note") =>
     /\ ret.result # NULL
     /\ ~parser.error.has_error
     /\ TokensOf(ret.arg) = TokensOf(BareText(ret.form))
     /\ SameTree(heap, root, vibe_parse_string(vibe_parser_new, Empty, BareText(ret.form)))
     /\ ret.form.body.stores =>
          HoldsEntry(heap, object_of(heap, root), <<"p">>, ret.form.body.node)
     /\ ret.form.end # <<>> =>
          \E i \in 1..Len(TokensOf(ret.arg)) : TokensOf(ret.arg)[i].type = "TOKEN_NEWLINE"

\* p 8  # n and its newline: the tokens are p, 8, the Newline and the end
C30_Witness ==
  /\ IsForm("note")
  /\ ret.arg = <<"p", " ", "8", " ", " ", "#", " ", "n", "\n">>
  /\ TokensOf(ret.arg) =
       << [type |-> "TOKEN_IDENTIFIER", value |-> <<"p">>],
          [type |-> "TOKEN_NUMBER", value |-> <<"8">>],
          [type |-> "TOKEN_NEWLINE", value |-> NULL_STR],
          [type |-> "TOKEN_EOF", value |-> NULL_STR] >>
  /\ HoldsEntry(heap, object_of(heap, root), <<"p">>, RefInteger(8))

(***************************************************************************)
(* An Object written inside an Array                                       *)
(***************************************************************************)
\* the numbers of Objects the Array is written inside
ArrayDepths == {0, 1, MAX_NESTING_DEPTH - 2}

\* the elements written before the Object
ElemsBefore ==
  { [text |-> <<>>, values |-> <<>>],
    [text |-> <<"1", " ">>, values |-> <<RefInteger(1)>>] }

\* the pairs written inside the Object
PairsInside ==
  { [text |-> <<>>, entries |-> <<>>],
    [text |-> <<"a", " ", "1">>, entries |-> <<[key |-> <<"a">>, value |-> RefInteger(1)]>>],
    [text |-> <<"a", " ", "1", "\n", "b", " ", "x", "\n">>,
     entries |-> <<[key |-> <<"a">>, value |-> RefInteger(1)],
                   [key |-> <<"b">>, value |-> RefString(<<"x">>)]>>] }

\* the elements written after the Object; an identifier is one of them
ElemsAfter ==
  { [text |-> <<>>, values |-> <<>>],
    [text |-> <<" ", "y">>, values |-> <<RefString(<<"y">>)>>],
    [text |-> <<"i", "d", " ", "2">>, values |-> <<RefString(<<"i", "d">>), RefInteger(2)>>] }

ArrayEnds == {<<>>, <<"]">>, <<"]", "\n">>}

ArrayObjectForms ==
  [kind : {"array_object"}, n : ArrayDepths, before : ElemsBefore, pairs : PairsInside,
   after : ElemsAfter, end : ArrayEnds]

ArrayObjectText(f) ==
  Nest(f.n) \o <<"k", "[">> \o f.before.text \o <<"{">> \o f.pairs.text \o <<"}">>
            \o f.after.text \o f.end

ParseArrayObject == \E f \in ArrayObjectForms : ParseFormOn(f, ArrayObjectText(f))

\* a client that parses one Array that holds an Object
NextArrayObject == ParseArrayObject \/ ValueFree

SpecArrayObject == Init /\ [][NextArrayObject]_vars

\* the Arrays of the heap: the form writes one
Arrays(h) == {v \in DOMAIN h : h[v].type = "VIBE_TYPE_ARRAY"}

\* the Array written in the form
ArrayOf(h) == IF Cardinality(Arrays(h)) = 1 THEN CHOOSE v \in Arrays(h) : TRUE ELSE NULL

RefArrayObject(f) ==
  RefArray(f.before.values \o <<RefObject(f.pairs.entries)>> \o f.after.values)

\* C31 as claimed: a `{` read in an Array frame appends a new Object to
\* the Array and pushes an Object frame: the pairs up to the matching `}`
\* are stored in that Object, the elements after the `}` are appended to
\* the same Array, and an identifier read in the Array frame is appended
\* as a String
C31_ObjectInArray ==
  IsForm("array_object") =>
     /\ ret.result # NULL
     /\ ArrayOf(heap) # NULL
     /\ tree(heap, ArrayOf(heap)) = RefArrayObject(ret.form)

\* the same for the Arrays written where the stack has a frame left for
\* the Object
ObjectInShallowArray ==
  (IsForm("array_object") /\ ret.form.n < MAX_NESTING_DEPTH - 2) => C31_ObjectInArray

(***************************************************************************)
(* The frame stack, one loop iteration at a time, over every short text of *)
(* keys, braces and brackets and over texts nested to the last frame       *)
(***************************************************************************)
MaxBracketLen == 4

BracketBytes == {"a", "{", "}", "[", "]", "\n"}

BracketTexts == UNION {[1..n -> BracketBytes] : n \in 0..MaxBracketLen}

\* texts that fill the stack, close more than they open, or write a key of
\* an open Object again
StackExtras ==
  { Nest(MAX_NESTING_DEPTH),
    Nest(MAX_NESTING_DEPTH - 1) \o <<"k", "[", "1">>,
    Nest(MAX_NESTING_DEPTH - 2) \o <<"k", "[", "{", "a", " ", "1", "}", "{", "]", "}", "}">>,
    Nest(MAX_NESTING_DEPTH - 1) \o <<"}", "}", "]", "k", "{", "k", "{">>,
    <<"a", "{", "}", "a", "{", "b", " ", "1">>,
    <<"a", "{", "b", "{", "}", "b", "[", "{", "}", "b">>,
    <<"a", "[", "{", "a", "{", "}", "a", " ", "1", "}", "]", "]", "a", "[">> }

StackCorpus == BracketTexts \cup StackExtras

StepEnterStack ==
  /\ run = Idle
  /\ root = NULL
  /\ ncalls = 0
  /\ \E input \in StackCorpus : Entered(input, parse_start(parser, heap, input))

NextStack == StepEnterStack \/ StepToken \/ StepReturn \/ ValueFree

SpecStack == Init /\ [][NextStack]_vars

\* C32: whenever the loop reads or writes a frame, 0 <= stack.depth <= 63:
\* the 64 frames are never indexed out of bounds and the depth is never
\* negative, whatever `}` and `]` the input holds
C32_DepthInBounds ==
  (run # Idle /\ ~run.returned) =>
     /\ 0 <= run.depth
     /\ run.depth <= MAX_NESTING_DEPTH - 1
     /\ run.depth \in DOMAIN run.stack

\* the loop is at the last frame of the stack
C32_Witness ==
  /\ run # Idle
  /\ ~run.returned
  /\ run.depth = MAX_NESTING_DEPTH - 1
  /\ run.stack[run.depth].state = "STATE_ARRAY"

\* C33: at every step of a parse, frame 0 holds the root, the container of
\* every frame up to the depth is live, and the container of each frame is
\* a child of the container of the frame below it, so each is reachable
\* from the root and none was freed when a key was written again
C33_FramesLive ==
  (run # Idle /\ ~run.returned) =>
     /\ run.stack[0].container = run.root
     /\ \A i \in 0..run.depth : run.stack[i].container \in DOMAIN heap
     /\ \A i \in 1..run.depth :
          run.stack[i].container \in children(heap, run.stack[i - 1].container)

\* the key a was written again while no frame held the Object it replaced,
\* and the loop is in the new Object
C33_Witness ==
  /\ run # Idle
  /\ ~run.returned
  /\ parser.input = <<"a", "{", "}", "a", "{", "b", " ", "1">>
  /\ parser.pos = parser.length
  /\ run.depth = 1
  /\ Cardinality(DOMAIN heap) = 3

(***************************************************************************)
(* A closing brace or bracket written after a key that has no value        *)
(***************************************************************************)
\* what is open when the key is written, and the path of the innermost
\* Object
PeekLeads ==
  { [text |-> <<"o", " ", "{">>, path |-> <<"o">>],
    [text |-> <<"o", "{", "a", " ", "1", "\n">>, path |-> <<"o">>],
    [text |-> <<"o", "{", "p", "{">>, path |-> <<"o", ".", "p">>] }

PeekKeys == {<<"b">>, <<"a">>}

PeekGaps == {<<>>, <<" ">>}

PeekClosers == {<<"}">>, <<"]">>}

\* what is written after the closer: it begins with the pair c 1
PeekRests ==
  { <<"c", " ", "1", "\n">>,
    <<"\n", "c", " ", "1">>,
    <<" ", "c", " ", "1", "}", "\n", "d", " ", "2", "\n">> }

PeekForms ==
  [kind : {"peeked"}, lead : PeekLeads, key : PeekKeys, gap : PeekGaps,
   closer : PeekClosers, rest : PeekRests]

PeekText(f) == f.lead.text \o f.key \o f.gap \o f.closer \o f.rest

\* the text without the key and the closer
UnclosedText(f) == f.lead.text \o <<"\n">> \o f.rest

ParsePeeked == \E f \in PeekForms : ParseFormOn(f, PeekText(f))

\* a client that parses one text with a key before a closer
NextPeeked == ParsePeeked \/ ValueFree

SpecPeeked == Init /\ [][NextPeeked]_vars

\* C34: a `}` or `]` read as the token peeked after a key that has no
\* value is consumed and pops no frame: the entries that follow it are
\* set in the container that is still open, not in its parent, and the
\* tree is that of the text without the key and the closer
C34_PeekedCloserEaten ==
  IsForm("peeked") =>
     /\ ret.result # NULL
     /\ ~parser.error.has_error
     /\ vibe_get(heap, root, ret.form.lead.path \o <<".", "c">>) # NULL
     /\ heap[vibe_get(heap, root, ret.form.lead.path \o <<".", "c">>)] = RefInteger(1)
     /\ vibe_get(heap, root, <<"c">>) = NULL
     /\ SameTree(heap, root, vibe_parse_string(vibe_parser_new, Empty, UnclosedText(ret.form)))

\* o{p{b} c 1}, then d 2: c is in p, and d is in o, which the one `}` that
\* was read as a token has not closed
C34_Witness ==
  /\ IsForm("peeked")
  /\ ret.arg = <<"o", "{", "p", "{", "b", "}", " ", "c", " ", "1", "}", "\n", "d", " ", "2", "\n">>
  /\ tree(heap, root) =
       RefObject(<<[key |-> <<"o">>,
                    value |-> RefObject(<<[key |-> <<"p">>,
                                           value |-> RefObject(<<[key |-> <<"c">>, value |-> RefInteger(1)]>>)],
                                          [key |-> <<"d">>, value |-> RefInteger(2)]>>)]>>)

(***************************************************************************)
(* A list written inside a list                                            *)
(***************************************************************************)
\* the Object the Array is written in: the root, or the Object o
ListLeads == {<<>>, <<"o", "{">>}

\* the elements of the inner list
ElemsInner ==
  { [text |-> <<>>, values |-> <<>>],
    [text |-> <<"2", " ", "3">>, values |-> <<RefInteger(2), RefInteger(3)>>],
    [text |-> <<"x">>, values |-> <<RefString(<<"x">>)>>] }

\* what is written between the two `]`, and the entries it gives in the
\* enclosing Object
AfterInner ==
  { [text |-> <<>>, entries |-> <<>>],
    [text |-> <<" ", "4">>, entries |-> <<>>],
    [text |-> <<" ", "a", " ", "2">>, entries |-> <<[key |-> <<"a">>, value |-> RefInteger(2)]>>] }

\* what is written after the second `]`
AfterOuter ==
  { [text |-> <<>>, entries |-> <<>>],
    [text |-> <<"\n", "z", " ", "5", "\n">>, entries |-> <<[key |-> <<"z">>, value |-> RefInteger(5)]>>] }

InnerListForms ==
  [kind : {"inner_list"}, lead : ListLeads, before : ElemsBefore, inner : ElemsInner,
   after : AfterInner, tail : AfterOuter]

InnerListText(f) ==
  f.lead \o <<"k", "[">> \o f.before.text \o <<"[">> \o f.inner.text \o <<"]">>
         \o f.after.text \o <<"]">> \o f.tail.text

ParseInnerList == \E f \in InnerListForms : ParseFormOn(f, InnerListText(f))

\* a client that parses one list that holds a list
NextInnerList == ParseInnerList \/ ValueFree

SpecInnerList == Init /\ [][NextInnerList]_vars

\* the Object the Array was written in: k with the elements of both lists,
\* then the entries written after the first `]`
RefEnclosing(f) ==
  RefObject(<<[key |-> <<"k">>, value |-> RefArray(f.before.values \o f.inner.values)]>>
            \o f.after.entries \o f.tail.entries)

RefInnerList(f) ==
  IF f.lead = <<>> THEN RefEnclosing(f)
  ELSE RefObject(<<[key |-> <<"o">>, value |-> RefEnclosing(f)]>>)

\* C35: a `[` read in an Array frame creates no value and pushes no
\* frame: the elements of the inner list are appended to the outer Array,
\* the first `]` closes the outer Array, and what follows it is read in
\* the key position of the enclosing Object
C35_InnerListFlattened ==
  IsForm("inner_list") =>
     /\ ret.result # NULL
     /\ ~parser.error.has_error
     /\ tree(heap, root) = RefInnerList(ret.form)
     /\ Cardinality(Arrays(heap)) = 1

\* k[1 [2 3] a 2] and z 5: k holds 1, 2, 3, and a and z are entries of the
\* root
C35_Witness ==
  /\ IsForm("inner_list")
  /\ ret.arg = <<"k", "[", "1", " ", "[", "2", " ", "3", "]", " ", "a", " ", "2", "]",
                 "\n", "z", " ", "5", "\n">>
  /\ tree(heap, root) =
       RefObject(<<[key |-> <<"k">>,
                    value |-> RefArray(<<RefInteger(1), RefInteger(2), RefInteger(3)>>)],
                   [key |-> <<"a">>, value |-> RefInteger(2)],
                   [key |-> <<"z">>, value |-> RefInteger(5)]>>)

(***************************************************************************)
(* The strings of the error channel: a client that parses with one handle, *)
(* reads the error record, frees records and frees the handle              *)
(***************************************************************************)
MaxFrees == 2

ErrorCorpus ==
  { <<"a", " ", "7", "\n">>,
    <<"?">>,
    <<"a", " ", "\"">>,
    <<"a", "[", "\"", "\\", "q", "\"">> }

\* the handle has not been freed
Held == ret.op # "vibe_parser_free"

ErrorParseString ==
  /\ Held
  /\ ncalls < MaxCalls
  /\ freed' = freed
  /\ \E input \in ErrorCorpus : ParseStringOn(input)

ErrorParseFile ==
  /\ Held
  /\ ncalls < MaxCalls
  /\ freed' = freed
  /\ \E file \in Files : ParseFileOn(file)

\* VibeError err = vibe_get_last_error(parser): ret holds the record
GetLastError ==
  /\ Held
  /\ ret.op # "vibe_get_last_error"
  /\ ret' = [op |-> "vibe_get_last_error", error |-> vibe_get_last_error(parser)]
  /\ UNCHANGED <<parser, heap, root, fresh, ncalls, nsets, run, freed>>

\* the record r = [error, frees] is what vibe_error_free has left of the
\* record the client holds
ErrorFreed(r) ==
  /\ ret' = [op |-> "vibe_error_free", error |-> r.error]
  /\ freed' = freed \o [i \in 1..Len(r.frees) |-> [block |-> r.frees[i], by |-> "vibe_error_free"]]
  /\ UNCHANGED <<parser, heap, root, fresh, ncalls, nsets, run>>

ErrorFree ==
  /\ ret.op = "vibe_get_last_error"
  /\ Len(freed) < MaxFrees
  /\ ErrorFreed(vibe_error_free(ret.error))

\* vibe_parser_free(parser) has passed the addresses frees to free
ParserFreed(frees) ==
  /\ ret' = [op |-> "vibe_parser_free"]
  /\ freed' = freed \o [i \in 1..Len(frees) |-> [block |-> frees[i], by |-> "vibe_parser_free"]]
  /\ UNCHANGED <<parser, heap, root, fresh, ncalls, nsets, run>>

ParserFree ==
  /\ Held
  /\ root = NULL
  /\ ParserFreed(vibe_parser_free(parser))

NextError ==
  \/ ErrorParseString
  \/ ErrorParseFile
  \/ ValueFree
  \/ GetLastError
  \/ ErrorFree
  \/ ParserFree

SpecError == Init /\ [][NextError]_vars

\* the number of times the string at the address was passed to free
TimesFreed(block) == Cardinality({i \in 1..Len(freed) : freed[i].block = block})

\* C36 as claimed: when the handle is freed after parse calls alone, every
\* message the error channel has allocated has been freed exactly once:
\* none is leaked when a handle that holds the message of a failed parse
\* records an error in a later parse
C36_MessagesFreedOnce ==
  (ret.op = "vibe_parser_free" /\ \A i \in 1..Len(freed) : freed[i].by = "vibe_parser_free") =>
     \A block \in 1..parser.error.block : TimesFreed(block) = 1

\* C37: the record vibe_get_last_error returns holds the address of the
\* handle's message, not a copy: after vibe_error_free on the record, with
\* the handle still pointing to that message, vibe_parser_free frees the
\* same string a second time
C37_RecordSharesMessage ==
  /\ ret.op = "vibe_get_last_error" => ret.error = parser.error
  /\ (ret.op = "vibe_parser_free"
        /\ \E i \in 1..Len(freed) :
              freed[i].by = "vibe_error_free" /\ freed[i].block = parser.error.block)
       => TimesFreed(parser.error.block) >= 2

\* one failed parse, the record read and freed, the handle freed: the one
\* message was passed to free twice
C37_Witness ==
  /\ ret.op = "vibe_parser_free"
  /\ ncalls = 1
  /\ parser.error.has_error
  /\ freed = <<[block |-> 1, by |-> "vibe_error_free"], [block |-> 1, by |-> "vibe_parser_free"]>>

(***************************************************************************)
(* The integers at the ends of long long: a Number token without '.' of    *)
(* up to twenty-two digits                                                 *)
(***************************************************************************)
\* the digits written, the digits of the value they are read as, and the
\* digits of the value they are read as after a '-'
LongNumbers ==
  { [text |-> <<"0">>,
     plus |-> <<"0">>,
     minus |-> <<"0">>],
    [text |-> <<"7">>,
     plus |-> <<"7">>,
     minus |-> <<"7">>],
    [text |-> <<"0", "0", "7">>,
     plus |-> <<"7">>,
     minus |-> <<"7">>],
    [text |-> <<"9", "9", "9", "9", "9", "9", "9", "9", "9">>,
     plus |-> <<"9", "9", "9", "9", "9", "9", "9", "9", "9">>,
     minus |-> <<"9", "9", "9", "9", "9", "9", "9", "9", "9">>],
    [text |-> <<"1", "0", "0", "0", "0", "0", "0", "0", "0", "0">>,
     plus |-> <<"1", "0", "0", "0", "0", "0", "0", "0", "0", "0">>,
     minus |-> <<"1", "0", "0", "0", "0", "0", "0", "0", "0", "0">>],
    [text |-> <<"2", "1", "4", "7", "4", "8", "3", "6", "4", "8">>,
     plus |-> <<"2", "1", "4", "7", "4", "8", "3", "6", "4", "8">>,
     minus |-> <<"2", "1", "4", "7", "4", "8", "3", "6", "4", "8">>],
    [text |-> <<"9", "2", "2", "3", "3", "7", "2", "0", "3", "6", "8", "5", "4", "7", "7", "5", "8", "0", "6">>,
     plus |-> <<"9", "2", "2", "3", "3", "7", "2", "0", "3", "6", "8", "5", "4", "7", "7", "5", "8", "0", "6">>,
     minus |-> <<"9", "2", "2", "3", "3", "7", "2", "0", "3", "6", "8", "5", "4", "7", "7", "5", "8", "0", "6">>],
    [text |-> <<"9", "2", "2", "3", "3", "7", "2", "0", "3", "6", "8", "5", "4", "7", "7", "5", "8", "0", "7">>,
     plus |-> <<"9", "2", "2", "3", "3", "7", "2", "0", "3", "6", "8", "5", "4", "7", "7", "5", "8", "0", "7">>,
     minus |-> <<"9", "2", "2", "3", "3", "7", "2", "0", "3", "6", "8", "5", "4", "7", "7", "5", "8", "0", "7">>],
    [text |-> <<"9", "2", "2", "3", "3", "7", "2", "0", "3", "6", "8", "5", "4", "7", "7", "5", "8", "0", "8">>,
     plus |-> <<"9", "2", "2", "3", "3", "7", "2", "0", "3", "6", "8", "5", "4", "7", "7", "5", "8", "0", "7">>,
     minus |-> <<"9", "2", "2", "3", "3", "7", "2", "0", "3", "6", "8", "5", "4", "7", "7", "5", "8", "0", "8">>],
    [text |-> <<"9", "2", "2", "3", "3", "7", "2", "0", "3", "6", "8", "5", "4", "7", "7", "5", "8", "0", "9">>,
     plus |-> <<"9", "2", "2", "3", "3", "7", "2", "0", "3", "6", "8", "5", "4", "7", "7", "5", "8", "0", "7">>,
     minus |-> <<"9", "2", "2", "3", "3", "7", "2", "0", "3", "6", "8", "5", "4", "7", "7", "5", "8", "0", "8">>],
    [text |-> <<"0", "0", "0", "9", "2", "2", "3", "3", "7", "2", "0", "3", "6", "8", "5", "4", "7", "7", "5", "8", "0", "7">>,
     plus |-> <<"9", "2", "2", "3", "3", "7", "2", "0", "3", "6", "8", "5", "4", "7", "7", "5", "8", "0", "7">>,
     minus |-> <<"9", "2", "2", "3", "3", "7", "2", "0", "3", "6", "8", "5", "4", "7", "7", "5", "8", "0", "7">>],
    [text |-> <<"0", "0", "0", "0", "9", "2", "2", "3", "3", "7", "2", "0", "3", "6", "8", "5", "4", "7", "7", "5", "8", "0", "9">>,
     plus |-> <<"9", "2", "2", "3", "3", "7", "2", "0", "3", "6", "8", "5", "4", "7", "7", "5", "8", "0", "7">>,
     minus |-> <<"9", "2", "2", "3", "3", "7", "2", "0", "3", "6", "8", "5", "4", "7", "7", "5", "8", "0", "8">>],
    [text |-> <<"1", "0", "0", "0", "0", "0", "0", "0", "0", "0", "0", "0", "0", "0", "0", "0", "0", "0", "0", "0">>,
     plus |-> <<"9", "2", "2", "3", "3", "7", "2", "0", "3", "6", "8", "5", "4", "7", "7", "5", "8", "0", "7">>,
     minus |-> <<"9", "2", "2", "3", "3", "7", "2", "0", "3", "6", "8", "5", "4", "7", "7", "5", "8", "0", "8">>],
    [text |-> <<"9", "9", "9", "9", "9", "9", "9", "9", "9", "9", "9", "9", "9", "9", "9", "9", "9", "9", "9", "9">>,
     plus |-> <<"9", "2", "2", "3", "3", "7", "2", "0", "3", "6", "8", "5", "4", "7", "7", "5", "8", "0", "7">>,
     minus |-> <<"9", "2", "2", "3", "3", "7", "2", "0", "3", "6", "8", "5", "4", "7", "7", "5", "8", "0", "8">>],
    [text |-> <<"1", "8", "4", "4", "6", "7", "4", "4", "0", "7", "3", "7", "0", "9", "5", "5", "1", "6", "1", "6">>,
     plus |-> <<"9", "2", "2", "3", "3", "7", "2", "0", "3", "6", "8", "5", "4", "7", "7", "5", "8", "0", "7">>,
     minus |-> <<"9", "2", "2", "3", "3", "7", "2", "0", "3", "6", "8", "5", "4", "7", "7", "5", "8", "0", "8">>],
    [text |-> <<"1", "8", "4", "4", "6", "7", "4", "4", "0", "7", "3", "7", "0", "9", "5", "5", "1", "6", "2", "3">>,
     plus |-> <<"9", "2", "2", "3", "3", "7", "2", "0", "3", "6", "8", "5", "4", "7", "7", "5", "8", "0", "7">>,
     minus |-> <<"9", "2", "2", "3", "3", "7", "2", "0", "3", "6", "8", "5", "4", "7", "7", "5", "8", "0", "8">>] }

LongForms == [kind : {"long"}, neg : BOOLEAN, number : LongNumbers, lead : ValuePrefixes]

LongText(f) == f.lead \o (IF f.neg THEN <<"-">> ELSE <<>>) \o f.number.text

ParseLong == \E f \in LongForms : ParseFormOn(f, LongText(f))

\* a client that parses one Number
NextLong == ParseLong \/ ValueFree

SpecLong == Init /\ [][NextLong]_vars

\* the long long of the sign and the digits
RefLongLong(neg, digits) ==
  IF Len(digits) > 9 THEN [neg |-> neg, digits |-> digits]
  ELSE IF neg THEN 0 - RefDecimal(digits)
  ELSE RefDecimal(digits)

\* the value the form is read as
RefLong(f) == RefLongLong(f.neg, IF f.neg THEN f.number.minus ELSE f.number.plus)

\* the value written in the form: the entry k of the root, or the one
\* element of the Array k
LongNode(f) ==
  IF f.lead = <<"k", " ">> THEN tree(heap, root).entries[1].value
  ELSE tree(heap, root).entries[1].value.values[1]

\* C38: a Number token without '.' is an Integer of exactly its decimal
\* value when that fits a signed 64-bit integer; out of that range the parse
\* reports no error and the Integer is LLONG_MAX, or LLONG_MIN after '-'
C38_IntegerClamped ==
  IsForm("long") =>
     /\ ret.result # NULL
     /\ ~parser.error.has_error
     /\ LongNode(ret.form) = RefInteger(RefLong(ret.form))

\* -9223372036854775809 is read as LLONG_MIN
C38_Witness ==
  /\ IsForm("long")
  /\ ret.arg = <<"k", " ", "-">> \o <<"9", "2", "2", "3", "3", "7", "2", "0", "3", "6", "8", "5", "4", "7", "7", "5", "8", "0", "9">>
  /\ ~parser.error.has_error
  /\ tree(heap, root).entries[1].value = RefInteger([neg |-> TRUE, digits |-> LLONG_MIN])

(***************************************************************************)
(* Lookups along paths with empty segments, from any node of the tree      *)
(***************************************************************************)
MaxDots == 2

\* n dots
Dots(n) == [i \in 1..n |-> "."]

\* the keys, with lead dots before the first, sep dots between two and
\* trail dots after the last
RECURSIVE Separated(_, _)
Separated(keys, sep) ==
  IF Len(keys) = 0 THEN <<>>
  ELSE IF Len(keys) = 1 THEN keys[1]
  ELSE keys[1] \o Dots(sep) \o Separated(Tail(keys), sep)

DottedPaths == [keys : KeySeqs, lead : 0..MaxDots, sep : 1..MaxDots, trail : 0..MaxDots]

DottedText(d) == Dots(d.lead) \o Separated(d.keys, d.sep) \o Dots(d.trail)

\* one lookup in the tree that was just parsed
GetDotted ==
  /\ ret.op = "vibe_parse_string"
  /\ \E v \in subtree(heap, root), d \in DottedPaths :
     Looked("vibe_get", [value |-> v, path |-> DottedText(d), keys |-> d.keys],
            vibe_get(heap, v, DottedText(d)))

\* a client that parses one document and looks up dotted paths from its
\* nodes
NextDotted == GetParse \/ GetDotted \/ ValueFree

SpecDotted == Init /\ [][NextDotted]_vars

\* C39: vibe_get ignores the empty segments of a path: a path without keys
\* returns the node it was given, Object or not, and a path with leading,
\* trailing or doubled dots resolves to what the path of its keys joined by
\* single dots resolves to
C39_EmptySegmentsIgnored ==
  ret.op = "vibe_get" =>
     /\ ret.result = vibe_get(heap, ret.value, Join(ret.keys))
     /\ ret.result = Walk(heap, ret.value, ret.keys)
     /\ Len(ret.keys) = 0 => ret.result = ret.value

\* .a..b. from the root of a document where a.b is a Float
C39_Witness ==
  /\ ret.op = "vibe_get"
  /\ ret.value = root
  /\ ret.path = <<".", "a", ".", ".", "b", ".">>
  /\ ret.result # NULL
  /\ heap[ret.result].type = "VIBE_TYPE_FLOAT"

\* a path of dots only, from a node that is no Object
C39_WitnessScalar ==
  /\ ret.op = "vibe_get"
  /\ ret.path = <<".", ".">>
  /\ heap[ret.value].type = "VIBE_TYPE_INTEGER"
  /\ ret.result = ret.value

(***************************************************************************)
(* The progress of the loop of vibe_parse_string: one parse, stepped, of   *)
(* every text of up to MaxProgressLen bytes                                *)
(***************************************************************************)
MaxProgressLen == 3

ProgressBytes == {"a", " ", "\n", "{", "]", "?", "\"", "#", "-"}

ProgressTexts == UNION {[1..n -> ProgressBytes] : n \in 0..MaxProgressLen}

StepEnterProgress ==
  /\ run = Idle
  /\ ncalls = 0
  /\ \E input \in ProgressTexts : Entered(input, parse_start(parser, heap, input))

NextProgress == StepEnterProgress \/ StepToken \/ StepReturn \/ ValueFree

\* the loop is entered and has not returned
InLoop == run # Idle /\ ~run.returned

\* the function is at its return
AtReturn == run # Idle /\ run.returned

\* the thread that has entered the loop goes on running it: weak fairness
\* of the iteration and of the return, with the conditions that enable them
\* written out
SpecProgress ==
  /\ Init /\ [][NextProgress]_vars
  /\ ([]<>(~InLoop) \/ []<><<StepToken>>_vars)
  /\ ([]<>(~AtReturn) \/ []<><<StepReturn>>_vars)

\* the iteration from the loop state ps to qs has moved the cursor on by at
\* least one byte or has made the function return
Advanced(ps, qs) == qs.returned \/ qs.p.pos >= ps.p.pos + 1

\* the next iteration advances or returns
IterationAdvances == InLoop => Advanced(run, parse_loop_body(run))

\* a parse that was entered returns
Returns == (ret.op = "parse_enter") ~> (ret.op = "vibe_parse_string")

\* C40: vibe_parse_string terminates: every iteration of its loop advances
\* the cursor by at least one byte or returns, and a parse that was entered
\* returns, also when the token peeked after a key failed with "Unexpected
\* character" and left the cursor where it was
C40_ParseTerminates == []IterationAdvances /\ Returns

\* the iteration that read the key a has peeked `?`: the error is latched,
\* the cursor is on the `?` and the loop has not returned
C40_Witness ==
  /\ ret.op = "next_token"
  /\ ret.token.type = "TOKEN_IDENTIFIER"
  /\ parser.input = <<"a", " ", "?">>
  /\ parser.error.has_error
  /\ parser.error.message = "Unexpected character '?'"
  /\ parser.pos = 2
  /\ run # Idle /\ ~run.returned

====
